---- MODULE Spec2Model ----
(***************************************************************************)
(* Dispatch engine of lazylog (src/lazylog.go): the Logger's transport     *)
(* list and hook lists, log calls that snapshot them and fan an entry out, *)
(* and the transports of src/unnamed/part_011 and part_012.                *)
(*                                                                         *)
(* Go slices are modelled as headers (arr, len, cap) over backing arrays   *)
(* kept in `arrays`, because Logger.snapshot copies slice headers only and *)
(* RemoveTransport / AddTransport write into the backing array in place.   *)
(* The mutating methods hold l.mu for their whole body and snapshot holds  *)
(* the read lock, so each of them is one atomic action; the fan-out loop   *)
(* reads snap.transports[i] without any lock, one element per iteration.   *)
(* An element read is taken to yield a whole Transport value: the value    *)
(* the cell held before or after a racing write, depending on the order.   *)
(***************************************************************************)
EXTENDS Integers, Sequences, FiniteSets, TLC

\* ---------------------------------------------------------------- bounds
MaxOps == 2
MaxCalls == 1
MaxReg == 2
MaxSeq == 2
MaxDepth == 2
MaxChildren == 2
MaxCfg == 2

\* -------------------------------------------------------------- universe
Procs == {"g1"}

DEBUG == 0
INFO == 1
WARN == 2
ERROR == 3
Levels == {DEBUG, INFO, WARN, ERROR}

\* levels the modelled callers log at (Debug, Info, Error)
LogLevels == {DEBUG, INFO, ERROR}

\* Transport values held by the Logger.  A and B are *WriterTransport,
\* F is a *TransportWithFilter wrapping the *WriterTransport W.
Transports == {"A", "B", "F"}
NilTransport == "nil"

\* G is a *TransportWithFilter wrapping the *FileTransport "file".
TransportKind(t) == IF t \in {"F", "G"} THEN "filter" ELSE "writer"

\* TransportWithFilter.Transport
WrappedOf(t) == IF t = "G" THEN "file" ELSE "W"

\* WriterTransport.Level
WriterLevel(t) ==
  CASE t = "A" -> DEBUG
    [] t = "B" -> WARN
    [] OTHER   -> INFO

\* MinLevel() of *WriterTransport and of *TransportWithFilter
MinLevel(t) ==
  IF TransportKind(t) = "filter" THEN WriterLevel(WrappedOf(t))
  ELSE WriterLevel(t)

\* WriterTransport.Formatter: B is configured with a Formatter whose Format
\* always returns an error, the others with TextFormatter.
FormatterOf(t) == IF t = "B" THEN "failing" ELSE "text"

\* Per-call formatter override of EntryBuilder (nil when not overridden):
\* TextFormatter{TimestampFormat: time.RFC822}, or a Formatter whose Format
\* always returns an error
Overrides == {"nil", "text822", "failing"}

\* Messages are token sequences so that Format is a real conversion.
Messages == {<<"keep">>, <<"drop">>}

Contains(m, tok) == \E i \in 1..Len(m) : m[i] = tok

\* FilterFunc of F: strings.Contains(e.Message, "keep")
Filter(e) == Contains(e.Message, "keep")

LevelString(l) ==
  CASE l = DEBUG -> "DEBUG"
    [] l = INFO  -> "INFO"
    [] l = WARN  -> "WARN"
    [] l = ERROR -> "ERROR"
    [] OTHER     -> "UNKNOWN"

\* Formatter.Format: (bytes, error); the fields follow the message (their
\* order is that of Go's map iteration: any, here the order they were set)
Format(f, e) ==
  IF f = "failing" THEN [err |-> TRUE, data |-> <<>>]
  ELSE [err |-> FALSE,
        data |-> <<IF f = "text822" THEN "ts822" ELSE "ts",
                   LevelString(e.Level)>> \o e.Message \o e.Fields
                 \o <<"\n">>]

\* The fixed-layout fallback line of WriterTransport.WriteLog
FallbackLine(e) == <<"ts", LevelString(e.Level)>> \o e.Message \o <<"\n">>

\* ------------------------------------------------------------ Go slices
NilSlice == [arr |-> 0, len |-> 0, cap |-> 0]

\* contents of a slice as seen through its header
SliceSeq(arrs, s) == [i \in 1..s.len |-> arrs[s.arr][i]]

\* growslice for a one-element append to a full slice
GrowCap(c) == IF c = 0 THEN 1 ELSE 2 * c

\* append(s, t): in place when there is spare capacity, otherwise a new array
AppendSlice(arrs, s, t) ==
  IF s.len < s.cap
  THEN [arrays |-> [arrs EXCEPT ![s.arr][s.len + 1] = t],
        slice  |-> [s EXCEPT !.len = s.len + 1]]
  ELSE LET nc == GrowCap(s.cap)
           na == [i \in 1..nc |->
                    IF i <= s.len THEN arrs[s.arr][i]
                    ELSE IF i = s.len + 1 THEN t ELSE NilTransport]
       IN [arrays |-> Append(arrs, na),
           slice  |-> [arr |-> Len(arrs) + 1, len |-> s.len + 1, cap |-> nc]]

\* append(s[:i], s[i+1:]...) with i 1-based: shifts the tail left inside the
\* same backing array; the cell at the old last index keeps its old value.
DeleteAt(arrs, s, i) ==
  [arrays |-> [arrs EXCEPT ![s.arr] =
                 [j \in 1..Len(arrs[s.arr]) |->
                    IF j >= i /\ j < s.len THEN arrs[s.arr][j + 1]
                    ELSE arrs[s.arr][j]]],
   slice  |-> [s EXCEPT !.len = s.len - 1]]

\* mutant of FirstIndex: the last element identical to t
FirstIndexIsLast(arrs, s, t) ==
  IF \E i \in 1..s.len : arrs[s.arr][i] = t
  THEN CHOOSE i \in 1..s.len :
         /\ arrs[s.arr][i] = t
         /\ \A j \in (i + 1)..s.len : arrs[s.arr][j] # t
  ELSE 0

\* index of the first element identical to t, 0 when absent
FirstIndex(arrs, s, t) ==
  IF \E i \in 1..s.len : arrs[s.arr][i] = t
  THEN CHOOSE i \in 1..s.len :
         /\ arrs[s.arr][i] = t
         /\ \A j \in 1..(i - 1) : arrs[s.arr][j] # t
  ELSE 0

\* ---------------------------------------------------------------- state
VARIABLES
  arrays,        \* backing arrays of every []Transport allocated so far
  transports,    \* Logger.transports (slice header)
  beforeHooks,   \* Logger.beforeHooks
  afterHooks,    \* Logger.afterHooks
  errorHooks,    \* Logger.errorHooks
  nOps,          \* configuration calls made on the Logger so far
  exited,        \* os.Exit(1) has run
  failing,       \* sinks (io.Writer) whose Write returns an error
  tformatter,    \* per writer transport: its Formatter field
  pc,            \* per goroutine: position inside its log call
  kind,          \* per goroutine: "log", "fatal" or "panic"
  entry,         \* per goroutine: the Entry of the call
  formatter,     \* per goroutine: formatter argument of dispatchEntry
  snap,          \* per goroutine: the logSnapshot of the call
  snapList,      \* per goroutine: contents of l.transports when snapshotted
  idx,           \* per goroutine: transports iterated so far in the fan-out
  trace,         \* per goroutine: hook and transport invocations of the call
  ncalls         \* per goroutine: log calls started

\* ------------------------------------------------------- level registry
\* (src/unnamed/part_005) process-wide maps, guarded by levelMu
VARIABLES
  levelNames,    \* levelNames: Level -> name
  levelValues,   \* levelValues: name -> Level
  nReg,          \* RegisterLevel calls so far
  levelMu,       \* levelMu (sync.RWMutex): writer inside, number of readers
  regPc,         \* per goroutine: position inside its registry call
  regArg,        \* per goroutine: operation and arguments of the call
  regRet         \* per goroutine: what its String / ParseLevel returns

regVars == <<levelNames, levelValues, nReg, levelMu, regPc, regArg, regRet>>

\* m[k] = v on a Go map
MapSet(m, k, v) ==
  [x \in DOMAIN m \cup {k} |-> IF x = k THEN v ELSE m[x]]

\* -------------------------------------------------- consecutive log calls
VARIABLES
  prevFormatter  \* per goroutine: formatter argument of its previous call

seqVars == <<prevFormatter>>

SeqIdle == prevFormatter = [p \in Procs |-> "none"]

\* ------------------------------------------------------------ field maps
\* (src/unnamed/part_007) a map[string]interface{} is a function from keys
\* to values; a value is a leaf or a nested map.
VARIABLES
  mBase,         \* dst argument of mergeFields as it was before the call
  mSrc,          \* src argument of mergeFields (Entry.Fields)
  mOut,          \* dst after the call
  mPhase         \* "ready", then "merged" or "json"

mergeVars == <<mBase, mSrc, mOut, mPhase>>

\* a nil or empty map
NoFields == <<>>

Leaf(v) == [tag |-> "leaf", v |-> v, m |-> NoFields]
Nested(m) == [tag |-> "map", v |-> "", m |-> m]

\* the type assertion v.(map[string]interface{})
IsMap(x) == x.tag = "map"

MergeKeys == {"request", "message"}

\* maps defined on some of the keys K with values in V
PartialMaps(K, V) == UNION {[D -> V] : D \in SUBSET K}

\* the maps over the keys K nested at most d deep whose leaves all hold v.
\* A map and the maps nested directly in it range over MergeKeys, the maps
\* nested deeper over the single key "request"; nested maps are not empty.
RECURSIVE FieldMaps(_, _, _)
FieldMaps(d, K, v) ==
  IF d = 0 THEN PartialMaps(K, {Leaf(v)})
  ELSE LET inner == IF d = MaxDepth THEN MergeKeys ELSE {"request"}
       IN PartialMaps(K,
            {Leaf(v)} \cup
            {Nested(m) : m \in FieldMaps(d - 1, inner, v) \ {NoFields}})

RECURSIVE mergeFields(_, _)
\* mutant of mergeFields: a nested map of src replaces the one of dst
mergeFieldsShallow(dst, src) ==
  [k \in DOMAIN dst \cup DOMAIN src |->
     IF k \in DOMAIN src THEN src[k] ELSE dst[k]]

\* mergeFields: the contents of dst after the loop over src
mergeFields(dst, src) ==
  [k \in DOMAIN dst \cup DOMAIN src |->
     IF k \notin DOMAIN src THEN dst[k]
     ELSE IF IsMap(src[k])
          THEN IF k \in DOMAIN dst /\ IsMap(dst[k])
               THEN Nested(mergeFields(dst[k].m, src[k].m))
               ELSE src[k]
          ELSE src[k]]

\* the map literal of JSONFormatter.Format
JSONBase(e) ==
  [k \in {"timestamp", "level", "message"} |->
     CASE k = "timestamp" -> Leaf("ts")
       [] k = "level"     -> Leaf(LevelString(e.Level))
       [] OTHER           -> Leaf(e.Message)]

JSONMessages == {"nested fields"}

MergeIdle ==
  /\ mBase = NoFields
  /\ mSrc = NoFields
  /\ mOut = NoFields
  /\ mPhase = "idle"

\* -------------------------------------------------------- event assembly
\* (src/lazylog.go) the entry points build an Entry and hand it to
\* dispatchEntry.  A map[string]interface{} is a reference: `heap` holds the
\* contents of the maps the entry points can reach, three maps owned by the
\* caller and the map the current call allocated itself.
VARIABLES
  stacktrace,    \* Logger.stacktrace
  heap,          \* contents of the field maps, by reference
  children,      \* ChildLogger.fields of the child loggers created so far
  event,         \* the Entry the last call handed to dispatchEntry
  injects,       \* a before-hook that sets entry.Fields["hook"] is registered
  literal        \* the map literal the caller passes as fields of a call

asmVars == <<stacktrace, heap, children, event, injects, literal>>

\* references: the maps passed to WithFields, the map passed as fields of a
\* call, the map made by the call; NilMap is the nil map
NilMap == 0
BoundA == 1
BoundB == 2
CallFields == 3
Fresh == 4

\* StacktraceConfig{} of NewLogger
NoPolicy == [Enabled |-> FALSE, Levels |-> {}]

\* context.Context: the values under CtxKey("trace_id") and under "trace_id"
NoCtx == [typed |-> "nil", plain |-> "nil"]
Contexts == [typed : {"nil", "t"}, plain : {"nil", "p"}]

NoEvent ==
  [via |-> "none", Level |-> INFO, policy |-> NoPolicy, Fields |-> NilMap,
   seen |-> NoFields, callv |-> NoFields, boundv |-> NoFields,
   caller |-> NilMap, child |-> 0, ctx |-> NoCtx]

AsmIdle ==
  /\ stacktrace = NoPolicy
  /\ heap = <<NoFields, NoFields, NoFields, NoFields>>
  /\ children = <<>>
  /\ event = NoEvent
  /\ injects = FALSE
  /\ literal = NoFields

\* levels of the modelled calls and level sets given to EnableStacktrace
AsmLevels == {INFO, ERROR}
StackLevelSets == {{}, {ERROR}}

\* field maps of the callers: the key `own` holds a leaf, "request" is
\* absent or holds a leaf or a nested map; every leaf holds v
AsmMaps(own, v) ==
  {m \in PartialMaps({own, "request"},
            {Leaf(v)} \cup
            {Nested(n) : n \in PartialMaps(MergeKeys, {Leaf(v)}) \ {NoFields}}) :
     own \in DOMAIN m /\ ~IsMap(m[own])}

\* contents of the map behind a reference
FieldsOf(h, id) == IF id = NilMap THEN NoFields ELSE h[id]

\* `if entry.Fields == nil { entry.Fields = make(...) }; entry.Fields[k] = v`
\* on st = [heap, fields]
SetField(st, k, v) ==
  IF st.fields = NilMap
  THEN [heap |-> [st.heap EXCEPT ![Fresh] = MapSet(NoFields, k, v)],
        fields |-> Fresh]
  ELSE [heap |-> [st.heap EXCEPT ![st.fields] = MapSet(@, k, v)],
        fields |-> st.fields]

\* snap.stacktrace.Enabled && snap.stacktrace.Levels[level]
PolicyOn(pol, lvl) == pol.Enabled /\ lvl \in pol.Levels

\* stacktrace capture of Logger.log and Logger.logWithFields
StackInject(st, pol, lvl) ==
  IF PolicyOn(pol, lvl) THEN SetField(st, "stacktrace", Leaf("stack")) ELSE st

\* mutant of TraceID: the plain string key is looked up first
TraceIDPlainFirst(ctx) == IF ctx.plain # "nil" THEN ctx.plain ELSE ctx.typed

\* the loop over []any{CtxKey("trace_id"), "trace_id"}: the first value that
\* is not nil, "nil" when there is none
TraceID(ctx) == IF ctx.typed # "nil" THEN ctx.typed ELSE ctx.plain

\* trace-id injection of logWithContext
TraceInject(st, ctx) ==
  IF TraceID(ctx) # "nil" THEN SetField(st, "trace_id", Leaf(TraceID(ctx)))
  ELSE st

\* mutant of ChildMerge: the bound value wins a collision
ChildMergeBoundWins(bound, call) ==
  [k \in DOMAIN bound \cup DOMAIN call |->
     IF k \in DOMAIN bound THEN bound[k] ELSE call[k]]

\* the two copy loops of logWithMergedFields: contents of `merged`
ChildMerge(bound, call) ==
  [k \in DOMAIN bound \cup DOMAIN call |->
     IF k \in DOMAIN call THEN call[k] ELSE bound[k]]

\* ---------------------------------------------------------- Logger.mu
\* Calls on one Logger by concurrent goroutines, one step per lock
\* operation and per blocking point.
VARIABLES
  mu,            \* Logger.mu (sync.RWMutex): writer inside, number of readers
  lockPc,        \* per goroutine: position inside its call
  lockArg,       \* per goroutine: the configuration call it makes
  lockSnap,      \* per goroutine: the logSnapshot of its log call
  lockIdx,       \* per goroutine: transports its log call is done with
  history        \* AddTransport / RemoveTransport calls in the order applied

lockVars == <<mu, lockPc, lockArg, lockSnap, lockIdx, history>>

\* goroutines sharing the Logger
LockProcs == {"k1", "k2"}

\* the configuration calls made
ConfigCalls ==
  [op : {"AddTransport", "RemoveTransport"}, t : {"A"}]
  \cup [op : {"AddHook"}, t : {"before", "after"}]
  \cup [op : {"AddErrorHook", "EnableStacktrace"}, t : {"-"}]

\* ------------------------------------------- Logger.stacktrace, by steps
\* StacktraceConfig.Levels is a map, that is a reference: EnableStacktrace
\* and the snapshot are modelled with the maps in a heap, one step per
\* statement, for the goroutines of LockProcs under Logger.mu.
VARIABLES
  policy,        \* Logger.stacktrace: Enabled, and Levels as a reference into
                 \* levelMaps (0 is the nil map)
  levelMaps,     \* the maps made by EnableStacktrace: has = the levels set to
                 \* true so far, arg = the levels the making call was given
  polLocal       \* per goroutine: the levels still to range over, or the
                 \* snapshot's policy, the call's level and the decision taken

NoPolLocal == [todo |-> {}, snap |-> [Enabled |-> FALSE, Levels |-> 0],
               lvl |-> 0, capture |-> FALSE]

\* ------------------------------------------------ NewLoggerFromConfig
VARIABLES
  cfg,           \* the LoggerConfig passed: its Transports, each with
                 \* opens: whether the file of a "file" entry can be opened
  cfgIdx,        \* entries of cfg.Transports handled so far
  cfgList,       \* logger.transports of the Logger under construction
  cfgRet         \* "idle", "running", or what was returned: "ok" (the Logger),
                 \* "unknown type" / "open failed" (nil and that error)

\* ------------------------------------------------------- Logger.Close
VARIABLES
  closePc,       \* position inside the Close call
  closeList,     \* Close's local copy of the transport list
  closeIdx,      \* elements of the copy iterated so far
  closed,        \* the Close calls made on transports, in order
  firstErr       \* Close's firstErr: 0 is nil, i the error of the i-th element

\* transports implementing io.Closer: a *FileTransport, a *LumberjackTransport
Closers == {"file", "rot"}

\* no Close call, no NewLoggerFromConfig call and no call of the goroutines
\* of LockProcs in progress
CloseIdle ==
  /\ policy = [Enabled |-> FALSE, Levels |-> 0]
  /\ levelMaps = <<>>
  /\ polLocal = [p \in LockProcs |-> NoPolLocal]
  /\ cfg = <<>>
  /\ cfgIdx = 0
  /\ cfgList = <<>>
  /\ cfgRet = "idle"
  /\ mu = [w |-> FALSE, r |-> 0]
  /\ lockPc = [p \in LockProcs |-> "idle"]
  /\ lockArg = [p \in LockProcs |-> [op |-> "none", t |-> "-"]]
  /\ lockSnap = [p \in LockProcs |->
                   [transports  |-> NilSlice, beforeHooks |-> <<>>,
                    afterHooks  |-> <<>>, errorHooks |-> <<>>]]
  /\ lockIdx = [p \in LockProcs |-> 0]
  /\ history = <<>>
  /\ closePc = "idle"
  /\ closeList = <<>>
  /\ closeIdx = 0
  /\ closed = <<>>
  /\ firstErr = 0

auxVars == <<regVars, seqVars, mergeVars, asmVars,
             closePc, closeList, closeIdx, closed, firstErr, lockVars,
             cfg, cfgIdx, cfgList, cfgRet, policy, levelMaps, polLocal>>

\* Level names are character sequences, so that strings.ToUpper is a real
\* conversion.
NameDEBUG == <<"D", "E", "B", "U", "G">>
NameINFO == <<"I", "N", "F", "O">>
NameWARN == <<"W", "A", "R", "N">>
NameERROR == <<"E", "R", "R", "O", "R">>
NameUNKNOWN == <<"U", "N", "K", "N", "O", "W", "N">>
NameTRACE == <<"T", "R", "A", "C", "E">>

\* custom level values of the documentation and the tests
TRACE == 5
NOTICE == 10

\* arguments of the modelled RegisterLevel calls
RegNames == {NameERROR, NameTRACE, <<"t", "r", "a", "c", "e">>,
             <<"T", "r", "a", "c", "e">>}
RegValues == {ERROR, TRACE, NOTICE}

\* arguments of the modelled ParseLevel calls
ParseInputs == RegNames \cup {NameINFO, <<"e", "r", "r", "o", "r">>,
                              <<"c", "a", "t">>}

\* unicode.ToUpper on the letters used
UpperChar(c) ==
  CASE c = "a" -> "A"
    [] c = "c" -> "C"
    [] c = "e" -> "E"
    [] c = "o" -> "O"
    [] c = "r" -> "R"
    [] c = "t" -> "T"
    [] OTHER   -> c

\* strings.ToUpper
ToUpper(str) == [i \in DOMAIN str |-> UpperChar(str[i])]

\* the maps as initialised by the package
BuiltinNames ==
  [l \in Levels |->
     CASE l = DEBUG -> NameDEBUG
       [] l = INFO  -> NameINFO
       [] l = WARN  -> NameWARN
       [] OTHER     -> NameERROR]

BuiltinValues ==
  [n \in {NameDEBUG, NameINFO, NameWARN, NameERROR} |->
     CASE n = NameDEBUG -> DEBUG
       [] n = NameINFO  -> INFO
       [] n = NameWARN  -> WARN
       [] OTHER         -> ERROR]

\* goroutines calling into the registry concurrently
RegProcs == {"r1", "r2"}

NoRegCall == [op |-> "none", name |-> <<>>, value |-> 0]

RegIdle ==
  /\ levelNames = BuiltinNames
  /\ levelValues = BuiltinValues
  /\ nReg = 0
  /\ levelMu = [w |-> FALSE, r |-> 0]
  /\ regPc = [p \in RegProcs |-> "idle"]
  /\ regArg = [p \in RegProcs |-> NoRegCall]
  /\ regRet = [p \in RegProcs |-> NoRegCall]

\* Level.String
String(l) == IF l \in DOMAIN levelNames THEN levelNames[l] ELSE NameUNKNOWN

\* ParseLevel
ParseLevel(lvl) ==
  IF ToUpper(lvl) \in DOMAIN levelValues THEN levelValues[ToUpper(lvl)]
  ELSE INFO

vars == <<arrays, transports, beforeHooks, afterHooks, errorHooks, nOps,
          exited, failing, tformatter, pc, kind, entry, formatter, snap,
          snapList, idx, trace, ncalls, auxVars>>

loggerVars == <<arrays, transports, beforeHooks, afterHooks, errorHooks,
                nOps, failing, tformatter>>
callVars == <<pc, kind, entry, formatter, snap, snapList, idx, trace, ncalls>>

\* NewLogger(transports...): the variadic slice becomes l.transports
InitialLists == {<<"A", "F">>}

\* The sinks that are configured to fail ("a transport configured to always
\* fail"); Write on any other sink succeeds.  "file" is the *os.File of the
\* *FileTransport "file".
Sinks == {"A", "B", "W", "file"}
FailingSets == {{"A"}, {"B", "W"}}

NoEntry == [Level |-> INFO, Message |-> <<>>, Fields |-> <<>>]
NoSnap == [transports |-> NilSlice, beforeHooks |-> <<>>,
           afterHooks |-> <<>>, errorHooks |-> <<>>]

Init ==
  /\ \E l \in InitialLists :
       IF l = <<>>
       THEN arrays = <<>> /\ transports = NilSlice
       ELSE /\ arrays = <<l>>
            /\ transports = [arr |-> 1, len |-> Len(l), cap |-> Len(l)]
  /\ beforeHooks = <<>>
  /\ afterHooks = <<>>
  /\ errorHooks = <<>>
  /\ nOps = 0
  /\ exited = FALSE
  /\ failing \in FailingSets
  /\ tformatter = [w \in Sinks |-> FormatterOf(w)]
  /\ RegIdle
  /\ SeqIdle
  /\ MergeIdle
  /\ AsmIdle
  /\ CloseIdle
  /\ pc = [p \in Procs |-> "idle"]
  /\ kind = [p \in Procs |-> "log"]
  /\ entry = [p \in Procs |-> NoEntry]
  /\ formatter = [p \in Procs |-> "nil"]
  /\ snap = [p \in Procs |-> NoSnap]
  /\ snapList = [p \in Procs |-> <<>>]
  /\ idx = [p \in Procs |-> 0]
  /\ trace = [p \in Procs |-> <<>>]
  /\ ncalls = [p \in Procs |-> 0]

\* ----------------------------------------------------- Logger mutations
AddTransport(t) ==
  /\ ~exited
  /\ nOps < MaxOps
  /\ LET r == AppendSlice(arrays, transports, t)
     IN /\ arrays' = r.arrays
        /\ transports' = r.slice
  /\ nOps' = nOps + 1
  /\ UNCHANGED <<beforeHooks, afterHooks, errorHooks, exited, failing,
                 tformatter>>
  /\ UNCHANGED callVars
  /\ UNCHANGED auxVars

RemoveTransport(t) ==
  /\ ~exited
  /\ nOps < MaxOps
  /\ LET i == FirstIndex(arrays, transports, t)
     IN IF i = 0
        THEN UNCHANGED <<arrays, transports>>
        ELSE LET r == DeleteAt(arrays, transports, i)
             IN /\ arrays' = r.arrays
                /\ transports' = r.slice
  /\ nOps' = nOps + 1
  /\ UNCHANGED <<beforeHooks, afterHooks, errorHooks, exited, failing,
                 tformatter>>
  /\ UNCHANGED callVars
  /\ UNCHANGED auxVars

\* A hook is a closure; the one registered by the k-th configuration call
\* is named k, so hook names grow in registration order.
AddHook(before) ==
  /\ ~exited
  /\ nOps < MaxOps
  /\ nOps' = nOps + 1
  /\ IF before
     THEN /\ beforeHooks' = Append(beforeHooks, nOps + 1)
          /\ UNCHANGED afterHooks
     ELSE /\ afterHooks' = Append(afterHooks, nOps + 1)
          /\ UNCHANGED beforeHooks
  /\ UNCHANGED <<arrays, transports, errorHooks, exited, failing,
                 tformatter>>
  /\ UNCHANGED callVars
  /\ UNCHANGED auxVars

AddErrorHook ==
  /\ ~exited
  /\ nOps < MaxOps
  /\ nOps' = nOps + 1
  /\ errorHooks' = Append(errorHooks, nOps + 1)
  /\ UNCHANGED <<arrays, transports, beforeHooks, afterHooks, exited,
                 failing, tformatter>>
  /\ UNCHANGED callVars
  /\ UNCHANGED auxVars

\* --------------------------------------------------------- Logger.Close
\* mutant of LoggerClose: a closed Logger has no transports
LoggerCloseClearsList(fails) ==
  /\ ~exited
  /\ \/ /\ closePc = "idle"
        /\ closePc' = "loop"
        /\ closeList' = SliceSeq(arrays, transports)
        /\ UNCHANGED <<closeIdx, closed, firstErr>>
     \/ /\ closePc = "loop"
        /\ closeIdx < Len(closeList)
        /\ closeIdx' = closeIdx + 1
        /\ IF closeList[closeIdx + 1] \in Closers
           THEN /\ closed' = Append(closed,
                                    [t   |-> closeList[closeIdx + 1],
                                     err |-> IF fails THEN closeIdx + 1 ELSE 0])
                /\ firstErr' = IF fails /\ firstErr = 0 THEN closeIdx + 1
                               ELSE firstErr
           ELSE UNCHANGED <<closed, firstErr>>
        /\ UNCHANGED <<closePc, closeList>>
     \/ /\ closePc = "loop"
        /\ closeIdx = Len(closeList)
        /\ closePc' = "returned"
        /\ UNCHANGED <<closeList, closeIdx, closed, firstErr>>
  /\ transports' = IF closePc' = "returned" THEN NilSlice ELSE transports
  /\ UNCHANGED <<arrays, beforeHooks, afterHooks, errorHooks, nOps, failing,
                 tformatter>>
  /\ UNCHANGED <<callVars, exited, regVars, seqVars, mergeVars, asmVars,
                 lockVars>>
  /\ UNCHANGED <<cfg, cfgIdx, cfgList, cfgRet, policy, levelMaps, polLocal>>

\* mutant of LoggerClose: the loop is left at the first Close error
LoggerCloseStopsOnError(fails) ==
  /\ ~exited
  /\ \/ /\ closePc = "idle"
        /\ closePc' = "loop"
        /\ closeList' = SliceSeq(arrays, transports)
        /\ UNCHANGED <<closeIdx, closed, firstErr>>
     \/ /\ closePc = "loop"
        /\ closeIdx < Len(closeList) /\ firstErr = 0
        /\ closeIdx' = closeIdx + 1
        /\ IF closeList[closeIdx + 1] \in Closers
           THEN /\ closed' = Append(closed,
                                    [t   |-> closeList[closeIdx + 1],
                                     err |-> IF fails THEN closeIdx + 1 ELSE 0])
                /\ firstErr' = IF fails /\ firstErr = 0 THEN closeIdx + 1
                               ELSE firstErr
           ELSE UNCHANGED <<closed, firstErr>>
        /\ UNCHANGED <<closePc, closeList>>
     \/ /\ closePc = "loop"
        /\ closeIdx = Len(closeList) \/ firstErr # 0
        /\ closePc' = "returned"
        /\ UNCHANGED <<closeList, closeIdx, closed, firstErr>>
  /\ UNCHANGED <<loggerVars, callVars, exited, regVars, seqVars, mergeVars,
                 asmVars, lockVars>>
  /\ UNCHANGED <<cfg, cfgIdx, cfgList, cfgRet, policy, levelMaps, polLocal>>

\* The copy of the list under RLock, then one step per iteration of the
\* range loop (fails: the Close of this element returns an error), then the
\* return of firstErr.
LoggerClose(fails) ==
  /\ ~exited
  /\ \/ /\ closePc = "idle"
        /\ closePc' = "loop"
        /\ closeList' = SliceSeq(arrays, transports)
        /\ UNCHANGED <<closeIdx, closed, firstErr>>
     \/ /\ closePc = "loop"
        /\ closeIdx < Len(closeList)
        /\ closeIdx' = closeIdx + 1
        /\ IF closeList[closeIdx + 1] \in Closers
           THEN /\ closed' = Append(closed,
                                    [t   |-> closeList[closeIdx + 1],
                                     err |-> IF fails THEN closeIdx + 1 ELSE 0])
                /\ firstErr' = IF fails /\ firstErr = 0 THEN closeIdx + 1
                               ELSE firstErr
           ELSE UNCHANGED <<closed, firstErr>>
        /\ UNCHANGED <<closePc, closeList>>
     \/ /\ closePc = "loop"
        /\ closeIdx = Len(closeList)
        /\ closePc' = "returned"
        /\ UNCHANGED <<closeList, closeIdx, closed, firstErr>>
  /\ UNCHANGED <<loggerVars, callVars, exited, regVars, seqVars, mergeVars,
                 asmVars, lockVars>>
  /\ UNCHANGED <<cfg, cfgIdx, cfgList, cfgRet, policy, levelMaps, polLocal>>

\* a Logger that is reconfigured while it is closed
NextClose ==
  \/ \E t \in Closers \cup {"A", "G"} : AddTransport(t)
  \/ \E t \in Closers \cup {"A", "F"} : RemoveTransport(t)
  \/ \E fails \in BOOLEAN : LoggerClose(fails)

SpecClose == Init /\ [][NextClose]_vars

\* ------------------------------------------------- NewLoggerFromConfig
\* configurations passed: up to MaxCfg entries; "syslog" is a type the
\* switch does not know, <<"c", "a", "t">> a level ParseLevel does not know
Configs ==
  LET Lvls == {NameDEBUG, <<"e", "r", "r", "o", "r">>, <<"c", "a", "t">>}
      Entries == [Type : {"console", "syslog"}, Level : Lvls, opens : {TRUE}]
                 \cup [Type : {"file"}, Level : Lvls, opens : BOOLEAN]
  IN UNION {[1..n -> Entries] : n \in 0..MaxCfg}

\* mutant of NewLoggerFromConfig: an entry of unknown type is skipped
NewLoggerFromConfigSkips(c) ==
  /\ \/ /\ cfgRet = "idle"
        /\ cfg' = c
        /\ cfgRet' = "running"
        /\ UNCHANGED <<cfgIdx, cfgList>>
     \/ /\ cfgRet = "running"
        /\ cfgIdx < Len(cfg)
        /\ LET e == cfg[cfgIdx + 1]
               t == [Type |-> e.Type, Level |-> ParseLevel(e.Level)]
           IN /\ cfgList' = IF e.Type = "console" \/ (e.Type = "file" /\ e.opens)
                            THEN Append(cfgList, t) ELSE cfgList
              /\ cfgRet' = IF e.Type = "file" /\ ~e.opens THEN "open failed"
                           ELSE cfgRet
        /\ cfgIdx' = cfgIdx + 1
        /\ UNCHANGED cfg
     \/ /\ cfgRet = "running"
        /\ cfgIdx = Len(cfg)
        /\ cfgRet' = "ok"
        /\ UNCHANGED <<cfg, cfgIdx, cfgList>>
  /\ UNCHANGED <<loggerVars, callVars, exited, regVars, seqVars, mergeVars,
                 asmVars, lockVars, closePc, closeList, closeIdx, closed,
                 firstErr, policy, levelMaps, polLocal>>

\* NewLoggerFromConfig(c): the call, one step per iteration of the loop over
\* cfg.Transports (ParseLevel, the switch on Type, AddTransport or the
\* return of nil and an error), the return of the Logger after the loop
NewLoggerFromConfig(c) ==
  /\ \/ /\ cfgRet = "idle"
        /\ cfg' = c
        /\ cfgRet' = "running"
        /\ UNCHANGED <<cfgIdx, cfgList>>
     \/ /\ cfgRet = "running"
        /\ cfgIdx < Len(cfg)
        /\ LET e == cfg[cfgIdx + 1]
               t == [Type |-> e.Type, Level |-> ParseLevel(e.Level)]
           IN /\ cfgList' = IF e.Type = "console" \/ (e.Type = "file" /\ e.opens)
                            THEN Append(cfgList, t) ELSE cfgList
              /\ cfgRet' = IF e.Type = "file" /\ ~e.opens THEN "open failed"
                           ELSE IF e.Type \notin {"console", "file"}
                           THEN "unknown type" ELSE cfgRet
        /\ cfgIdx' = cfgIdx + 1
        /\ UNCHANGED cfg
     \/ /\ cfgRet = "running"
        /\ cfgIdx = Len(cfg)
        /\ cfgRet' = "ok"
        /\ UNCHANGED <<cfg, cfgIdx, cfgList>>
  /\ UNCHANGED <<loggerVars, callVars, exited, regVars, seqVars, mergeVars,
                 asmVars, lockVars, closePc, closeList, closeIdx, closed,
                 firstErr, policy, levelMaps, polLocal>>

NextConfig == \E c \in Configs : NewLoggerFromConfig(c)

SpecConfig == Init /\ [][NextConfig]_vars

\* ------------------------------------------------------- RegisterLevel
RegisterLevel(name, value) ==
  /\ nReg < MaxReg
  /\ nReg' = nReg + 1
  /\ levelNames' = MapSet(levelNames, value, name)
  /\ levelValues' = MapSet(levelValues, name, value)
  /\ UNCHANGED <<levelMu, regPc, regArg, regRet>>
  /\ UNCHANGED <<loggerVars, callVars, exited, seqVars, mergeVars, asmVars>>
  /\ UNCHANGED <<closePc, closeList, closeIdx, closed, firstErr, lockVars>>
  /\ UNCHANGED <<cfg, cfgIdx, cfgList, cfgRet, policy, levelMaps, polLocal>>

\* The package-level registry under a sequence of RegisterLevel calls
NextLevels == \E name \in RegNames, value \in RegValues :
                RegisterLevel(name, value)

SpecLevels == Init /\ [][NextLevels]_vars

\* ---------------------------------------------- the registry under levelMu
\* The same three operations, one step per statement, called by RegProcs.
\* the calls the goroutines make
RegCalls ==
  [op : {"RegisterLevel"}, name : {NameERROR, NameTRACE},
   value : {ERROR, TRACE}]
  \cup [op : {"String"}, name : {<<>>}, value : {ERROR, TRACE}]
  \cup [op : {"ParseLevel"}, name : {NameERROR, NameTRACE}, value : {0}]

\* a goroutine calls RegisterLevel(name, value); it has not locked yet
RegisterLevelCall(p, c) ==
  /\ regPc[p] = "idle"
  /\ c.op = "RegisterLevel"
  /\ nReg < MaxReg
  /\ nReg' = nReg + 1
  /\ regPc' = [regPc EXCEPT ![p] = "wcall"]
  /\ regArg' = [regArg EXCEPT ![p] = c]
  /\ UNCHANGED <<levelNames, levelValues, levelMu, regRet>>
  /\ UNCHANGED <<loggerVars, callVars, exited, seqVars, mergeVars, asmVars>>
  /\ UNCHANGED <<closePc, closeList, closeIdx, closed, firstErr, lockVars>>
  /\ UNCHANGED <<cfg, cfgIdx, cfgList, cfgRet, policy, levelMaps, polLocal>>

\* RegisterLevel: levelMu.Lock(), the two assignments, the deferred Unlock
RegisterLevelBody(p) ==
  /\ \/ /\ regPc[p] = "wcall"
        /\ ~levelMu.w /\ levelMu.r = 0
        /\ levelMu' = [levelMu EXCEPT !.w = TRUE]
        /\ regPc' = [regPc EXCEPT ![p] = "locked"]
        /\ UNCHANGED <<levelNames, levelValues>>
     \/ /\ regPc[p] = "locked"
        /\ levelNames' = MapSet(levelNames, regArg[p].value, regArg[p].name)
        /\ regPc' = [regPc EXCEPT ![p] = "named"]
        /\ UNCHANGED <<levelValues, levelMu>>
     \/ /\ regPc[p] = "named"
        /\ levelValues' = MapSet(levelValues, regArg[p].name, regArg[p].value)
        /\ regPc' = [regPc EXCEPT ![p] = "valued"]
        /\ UNCHANGED <<levelNames, levelMu>>
     \/ /\ regPc[p] = "valued"
        /\ levelMu' = [levelMu EXCEPT !.w = FALSE]
        /\ regPc' = [regPc EXCEPT ![p] = "idle"]
        /\ UNCHANGED <<levelNames, levelValues>>
  /\ regArg' = IF regPc[p] = "valued" THEN [regArg EXCEPT ![p] = NoRegCall]
               ELSE regArg
  /\ UNCHANGED <<nReg, regRet>>
  /\ UNCHANGED <<loggerVars, callVars, exited, seqVars, mergeVars, asmVars>>
  /\ UNCHANGED <<closePc, closeList, closeIdx, closed, firstErr, lockVars>>
  /\ UNCHANGED <<cfg, cfgIdx, cfgList, cfgRet, policy, levelMaps, polLocal>>

\* String / ParseLevel without the read lock
ReadCallUnlocked(p, c) ==
  /\ regPc[p] = "idle"
  /\ c.op # "RegisterLevel"
  /\ levelMu' = [levelMu EXCEPT !.r = @ + 1]
  /\ regPc' = [regPc EXCEPT ![p] = "rlocked"]
  /\ regArg' = [regArg EXCEPT ![p] = c]
  /\ UNCHANGED <<levelNames, levelValues, nReg, regRet>>
  /\ UNCHANGED <<loggerVars, callVars, exited, seqVars, mergeVars, asmVars>>
  /\ UNCHANGED <<closePc, closeList, closeIdx, closed, firstErr, lockVars>>
  /\ UNCHANGED <<cfg, cfgIdx, cfgList, cfgRet, policy, levelMaps, polLocal>>

\* a goroutine calls Level(value).String() or ParseLevel(name):
\* levelMu.RLock() returns once no writer holds the lock
ReadCall(p, c) ==
  /\ regPc[p] = "idle"
  /\ c.op # "RegisterLevel"
  /\ ~levelMu.w
  /\ levelMu' = [levelMu EXCEPT !.r = @ + 1]
  /\ regPc' = [regPc EXCEPT ![p] = "rlocked"]
  /\ regArg' = [regArg EXCEPT ![p] = c]
  /\ UNCHANGED <<levelNames, levelValues, nReg, regRet>>
  /\ UNCHANGED <<loggerVars, callVars, exited, seqVars, mergeVars, asmVars>>
  /\ UNCHANGED <<closePc, closeList, closeIdx, closed, firstErr, lockVars>>
  /\ UNCHANGED <<cfg, cfgIdx, cfgList, cfgRet, policy, levelMaps, polLocal>>

\* String / ParseLevel: the map lookup, then the deferred RUnlock and the
\* return to the caller
ReadBody(p) ==
  /\ \/ /\ regPc[p] = "rlocked"
        /\ regRet' = [regRet EXCEPT
                        ![p] = IF regArg[p].op = "String"
                               THEN [regArg[p] EXCEPT
                                       !.name = String(regArg[p].value)]
                               ELSE [regArg[p] EXCEPT
                                       !.value = ParseLevel(regArg[p].name)]]
        /\ regPc' = [regPc EXCEPT ![p] = "read"]
        /\ UNCHANGED levelMu
     \/ /\ regPc[p] = "read"
        /\ levelMu' = [levelMu EXCEPT !.r = @ - 1]
        /\ regPc' = [regPc EXCEPT ![p] = "idle"]
        /\ regRet' = [regRet EXCEPT ![p] = NoRegCall]
  /\ regArg' = IF regPc[p] = "read" THEN [regArg EXCEPT ![p] = NoRegCall]
               ELSE regArg
  /\ UNCHANGED <<levelNames, levelValues, nReg>>
  /\ UNCHANGED <<loggerVars, callVars, exited, seqVars, mergeVars, asmVars>>
  /\ UNCHANGED <<closePc, closeList, closeIdx, closed, firstErr, lockVars>>
  /\ UNCHANGED <<cfg, cfgIdx, cfgList, cfgRet, policy, levelMaps, polLocal>>

NextRegistry ==
  \E p \in RegProcs :
    \/ \E c \in RegCalls : RegisterLevelCall(p, c)
    \/ RegisterLevelBody(p)
    \/ \E c \in RegCalls : ReadCall(p, c)
    \/ ReadBody(p)

SpecRegistry == Init /\ [][NextRegistry]_vars

\* ---------------------------------------------------------- mergeFields
\* No Logger: the state of the dispatch engine with no transport and no call
DispatchIdle ==
  /\ arrays = <<>>
  /\ transports = NilSlice
  /\ beforeHooks = <<>>
  /\ afterHooks = <<>>
  /\ errorHooks = <<>>
  /\ nOps = 0
  /\ exited = FALSE
  /\ failing = {}
  /\ tformatter = [w \in Sinks |-> FormatterOf(w)]
  /\ pc = [p \in Procs |-> "idle"]
  /\ kind = [p \in Procs |-> "log"]
  /\ entry = [p \in Procs |-> NoEntry]
  /\ formatter = [p \in Procs |-> "nil"]
  /\ snap = [p \in Procs |-> NoSnap]
  /\ snapList = [p \in Procs |-> <<>>]
  /\ idx = [p \in Procs |-> 0]
  /\ trace = [p \in Procs |-> <<>>]
  /\ ncalls = [p \in Procs |-> 0]

dispatchVars == <<loggerVars, callVars, exited,
                  closePc, closeList, closeIdx, closed, firstErr, lockVars,
                  cfg, cfgIdx, cfgList, cfgRet, policy, levelMaps, polLocal>>

\* the arguments of one mergeFields call: the leaves of dst hold "d", the
\* leaves of src hold "s"
InitMerge ==
  /\ DispatchIdle
  /\ RegIdle
  /\ SeqIdle
  /\ AsmIdle
  /\ CloseIdle
  /\ mBase \in FieldMaps(MaxDepth, MergeKeys, "d")
  /\ mSrc \in FieldMaps(MaxDepth, MergeKeys, "s")
  /\ mOut = mBase
  /\ mPhase = "ready"

\* mergeFields(dst, src), dst being updated in place
MergeFieldsCall ==
  /\ mPhase = "ready"
  /\ mOut' = mergeFields(mBase, mSrc)
  /\ mPhase' = "merged"
  /\ UNCHANGED <<mBase, mSrc>>
  /\ UNCHANGED <<dispatchVars, regVars, seqVars, asmVars>>

\* JSONFormatter.Format of an Entry holding the fields mSrc: the object
\* handed to json.Marshal
JSONFormat(lvl, msg) ==
  /\ mPhase = "ready"
  /\ LET e == [Level |-> lvl, Message |-> msg, Fields |-> mSrc]
     IN /\ mBase' = JSONBase(e)
        /\ mOut' = mergeFields(JSONBase(e), e.Fields)
  /\ mPhase' = "json"
  /\ UNCHANGED mSrc
  /\ UNCHANGED <<dispatchVars, regVars, seqVars, asmVars>>

NextMerge ==
  \/ MergeFieldsCall
  \/ \E lvl \in LogLevels, msg \in JSONMessages : JSONFormat(lvl, msg)

SpecMerge == InitMerge /\ [][NextMerge]_vars

\* -------------------------------------------------------- entry points
\* One Logger without transports, three maps owned by the caller: the leaves
\* of the maps given to WithFields hold "d" and "e", those of the map given
\* as fields of a call hold "s"; "request" is the key they may share.
InitAssembly ==
  /\ DispatchIdle
  /\ RegIdle
  /\ SeqIdle
  /\ MergeIdle
  /\ CloseIdle
  /\ stacktrace = NoPolicy
  /\ literal \in AsmMaps("user", "s")
  /\ \E b \in AsmMaps("message", "d") :
       heap = <<b, [k \in {"service"} |-> Leaf("e")], literal, NoFields>>
  /\ children = <<>>
  /\ event = NoEvent
  /\ injects \in BOOLEAN

\* dispatchEntry(snap, &entry, ...) for the Entry whose Fields is st.fields:
\* the event is what the first before-hook receives; of the pipeline only
\* the write of the injecting before-hook into entry.Fields is kept (the
\* fan-out is the subject of Spec).  h0 is the heap when the call was made.
Deliver(via, lvl, st, caller, child, ctx, h0) ==
  /\ ~exited
  /\ event' = [via |-> via, Level |-> lvl, policy |-> stacktrace,
               Fields |-> st.fields, seen |-> FieldsOf(st.heap, st.fields),
               callv |-> FieldsOf(h0, caller),
               boundv |-> IF child = 0 THEN NoFields ELSE h0[children[child]],
               caller |-> caller, child |-> child, ctx |-> ctx]
  /\ heap' = IF injects THEN SetField(st, "hook", Leaf("h")).heap ELSE st.heap
  /\ UNCHANGED <<stacktrace, children, injects, literal>>
  /\ UNCHANGED <<dispatchVars, regVars, seqVars, mergeVars>>

\* the heap when a call is made: the map made by the previous call is
\* garbage, and the fields argument is a map newly built from the literal
Collected == [heap EXCEPT ![Fresh] = NoFields, ![CallFields] = literal]

EnableStacktrace(levels) ==
  /\ ~exited
  /\ stacktrace' = [Enabled |-> TRUE, Levels |-> levels]
  /\ UNCHANGED <<heap, children, event, injects, literal>>
  /\ UNCHANGED <<dispatchVars, regVars, seqVars, mergeVars>>

\* Logger.WithFields(fields): the child keeps the caller's map
WithFields(fid) ==
  /\ ~exited
  /\ Len(children) < MaxChildren
  /\ children' = Append(children, fid)
  /\ UNCHANGED <<stacktrace, heap, event, injects, literal>>
  /\ UNCHANGED <<dispatchVars, regVars, seqVars, mergeVars>>

\* Logger.Info / Logger.Error (Logger.log)
LogCall(lvl) ==
  LET st == StackInject([heap |-> Collected, fields |-> NilMap],
                        stacktrace, lvl)
  IN Deliver("log", lvl, st, NilMap, 0, NoCtx, Collected)

\* ComFields(fields).Info / WithFormatter(f).Info
\* (logWithFieldsCustomFormatter)
BuilderCall(lvl, fid) ==
  Deliver("builder", lvl, [heap |-> Collected, fields |-> fid], fid, 0,
          NoCtx, Collected)

\* InfoCtx / ErrorCtx (logWithContext)
CtxCall(lvl, ctx, fid) ==
  LET st == TraceInject([heap |-> Collected, fields |-> fid], ctx)
  IN Deliver("ctx", lvl, st, fid, 0, ctx, Collected)

\* Logger.logWithFields(level, message, fields) called with the map `from`
LogWithFields(via, lvl, st, caller, child) ==
  Deliver(via, lvl, StackInject(st, stacktrace, lvl), caller, child, NoCtx,
          Collected)

\* mutant of ChildCall: the call-site fields are copied into c.fields itself
ChildCallInPlace(c, lvl, fid) ==
  /\ c \in DOMAIN children
  /\ LET merged == ChildMerge(Collected[children[c]], FieldsOf(Collected, fid))
     IN LogWithFields("child", lvl,
                      [heap |-> [Collected EXCEPT ![children[c]] = merged],
                       fields |-> children[c]], fid, c)

\* ChildLogger.Info / Error (logWithMergedFields); fid = NilMap when no
\* fields are given
ChildCall(c, lvl, fid) ==
  /\ c \in DOMAIN children
  /\ LET merged == ChildMerge(Collected[children[c]], FieldsOf(Collected, fid))
     IN LogWithFields("child", lvl,
                      [heap |-> [Collected EXCEPT ![Fresh] = merged],
                       fields |-> Fresh], fid, c)

\* mutant of FatalCall: the stack trace is left to the stacktrace policy
FatalCallByPolicy(k, fid, recovered) ==
  /\ ~exited
  /\ LET st == StackInject([heap |-> Collected, fields |-> fid],
                            stacktrace, ERROR)
     IN /\ event' = [via |-> k, Level |-> ERROR, policy |-> stacktrace,
                     Fields |-> st.fields,
                     seen |-> FieldsOf(st.heap, st.fields),
                     callv |-> FieldsOf(Collected, fid), boundv |-> NoFields,
                     caller |-> fid, child |-> 0, ctx |-> NoCtx]
        /\ heap' = IF injects THEN SetField(st, "hook", Leaf("h")).heap
                   ELSE st.heap
  /\ exited' = (k = "fatal" \/ ~recovered)
  /\ UNCHANGED <<stacktrace, children, injects, literal>>
  /\ UNCHANGED <<loggerVars, callVars, regVars, seqVars, mergeVars>>
  /\ UNCHANGED <<closePc, closeList, closeIdx, closed, firstErr, lockVars>>
  /\ UNCHANGED <<cfg, cfgIdx, cfgList, cfgRet, policy, levelMaps, polLocal>>

\* Logger.Fatal(message, fields...) (k = "fatal") and Logger.Panic
\* (k = "panic"): fid is fields[0], NilMap when no fields are given; the
\* stack trace is written into that map, or into a new one when it is nil,
\* and the call goes through logWithFields at ERROR.  Then os.Exit(1), or
\* panic(message), which ends the process unless a caller recovers.
FatalCall(k, fid, recovered) ==
  /\ ~exited
  /\ LET flds == SetField([heap |-> Collected, fields |-> fid],
                          "stacktrace", Leaf("stack"))
         st == StackInject(flds, stacktrace, ERROR)
     IN /\ event' = [via |-> k, Level |-> ERROR, policy |-> stacktrace,
                     Fields |-> st.fields,
                     seen |-> FieldsOf(st.heap, st.fields),
                     callv |-> FieldsOf(Collected, fid), boundv |-> NoFields,
                     caller |-> fid, child |-> 0, ctx |-> NoCtx]
        /\ heap' = IF injects THEN SetField(st, "hook", Leaf("h")).heap
                   ELSE st.heap
  /\ exited' = (k = "fatal" \/ ~recovered)
  /\ UNCHANGED <<stacktrace, children, injects, literal>>
  /\ UNCHANGED <<loggerVars, callVars, regVars, seqVars, mergeVars>>
  /\ UNCHANGED <<closePc, closeList, closeIdx, closed, firstErr, lockVars>>
  /\ UNCHANGED <<cfg, cfgIdx, cfgList, cfgRet, policy, levelMaps, polLocal>>

NextAssembly ==
  \/ \E levels \in StackLevelSets : EnableStacktrace(levels)
  \/ \E fid \in {BoundA, BoundB} : WithFields(fid)
  \/ \E lvl \in AsmLevels : LogCall(lvl)
  \/ \E lvl \in AsmLevels, fid \in {NilMap, CallFields} : BuilderCall(lvl, fid)
  \/ \E lvl \in AsmLevels, ctx \in Contexts, fid \in {NilMap, CallFields} :
       CtxCall(lvl, ctx, fid)
  \/ \E c \in 1..MaxChildren, lvl \in AsmLevels, fid \in {NilMap, CallFields} :
       ChildCall(c, lvl, fid)
  \/ \E k \in {"fatal", "panic"}, fid \in {NilMap, CallFields},
        recovered \in BOOLEAN : FatalCall(k, fid, recovered)

SpecAssembly == InitAssembly /\ [][NextAssembly]_vars

\* ------------------------------------------------------------ transports
\* Result of one WriteLog / writeFormatted call:
\*   err   "nil" or the error returned,
\*   out   the Write calls made on underlying sinks, in order,
\*   calls the WriteLog calls made on transports, outermost first.
SinkErr(sinkOk) == IF sinkOk THEN "nil" ELSE "sink"

\* io.Writer.Write on the sink of writer transport w
SinkOk(bad, w) == w \notin bad

\* WriterTransport.WriteLog
WriterWriteLog(w, e, bad) ==
  LET r == Format(tformatter[w], e)
      sinkOk == SinkOk(bad, w)
  IN [err   |-> SinkErr(sinkOk),
      out   |-> <<[sink |-> w,
                   data |-> IF r.err THEN FallbackLine(e) ELSE r.data,
                   ok   |-> sinkOk]>>,
      calls |-> <<[t |-> w, e |-> e]>>]

\* mutant of FilterWriteLog: a dropped entry is reported as an error
FilterWriteLogDropIsError(t, e, bad) ==
  IF ~Filter(e)
  THEN [err |-> "sink", out |-> <<>>, calls |-> <<[t |-> t, e |-> e]>>]
  ELSE LET r == WriterWriteLog(WrappedOf(t), e, bad)
       IN [err |-> r.err, out |-> r.out,
           calls |-> <<[t |-> t, e |-> e]>> \o r.calls]

\* TransportWithFilter.WriteLog
FilterWriteLog(t, e, bad) ==
  IF ~Filter(e)
  THEN [err |-> "nil", out |-> <<>>, calls |-> <<[t |-> t, e |-> e]>>]
  ELSE LET r == WriterWriteLog(WrappedOf(t), e, bad)
       IN [err |-> r.err, out |-> r.out,
           calls |-> <<[t |-> t, e |-> e]>> \o r.calls]

\* Transport.WriteLog, dispatched on the dynamic type
WriteLog(t, e, bad) ==
  IF TransportKind(t) = "filter" THEN FilterWriteLog(t, e, bad)
  ELSE WriterWriteLog(t, e, bad)

\* writeFormatted: raw sink of a *WriterTransport, WriteLog of a fresh
\* Entry{Message: string(data)} for a kind it does not know
writeFormatted(t, data, bad) ==
  IF TransportKind(t) = "writer"
  THEN [err |-> SinkErr(SinkOk(bad, t)),
        out |-> <<[sink |-> t, data |-> data, ok |-> SinkOk(bad, t)]>>,
        calls |-> <<>>]
  ELSE WriteLog(t, [Level |-> DEBUG, Message |-> data, Fields |-> <<>>], bad)

\* --------------------------------------------------------- dispatchEntry
\* A trace record: op is "before", "after", "errhook" (who = the hook),
\* "write" or "skip" (who = the 1-based index iterated, t = the transport
\* read there); an "errhook" record carries the transport and error passed.
HookRec(o, h, t, err) ==
  [op |-> o, who |-> h, t |-> t, err |-> err, out |-> <<>>, calls |-> <<>>]

HookRecs(o, hooks, t, err) ==
  [i \in 1..Len(hooks) |-> HookRec(o, hooks[i], t, err)]

\* What the hooks do to the Entry they are handed: hook k sets the key "hk"
\* of entry.Fields (as TestComFieldsAndHooks' hook sets "hooked").
HookKeys(hooks) ==
  [i \in DOMAIN hooks |->
     CASE hooks[i] = 1 -> "h1"
       [] hooks[i] = 2 -> "h2"
       [] hooks[i] = 3 -> "h3"
       [] OTHER        -> "h4"]

\* Hook 0 is a hook that also sets entry.Level = DEBUG; the level of the
\* Entry after the hooks ran on an Entry of level lvl
HookLevel(hooks, lvl) ==
  IF \E i \in DOMAIN hooks : hooks[i] = 0 THEN DEBUG ELSE lvl

\* mutant of PassesLevel: strict comparison
PassesLevelStrict(e, t) == e.Level > MinLevel(t)

\* the level filter `entry.Level >= t.MinLevel()`
PassesLevel(e, t) == e.Level >= MinLevel(t)

\* mutant of ErrorHooks: stops after the first error hook
ErrorHooksFirstOnly(s, t, err) ==
  HookRecs("errhook",
           IF s.errorHooks = <<>> THEN <<>> ELSE <<s.errorHooks[1]>>, t, err)

\* `for _, eh := range snap.errorHooks { eh(entry, t, err) }`
ErrorHooks(s, t, err) == HookRecs("errhook", s.errorHooks, t, err)

\* body of one iteration of `for _, t := range snap.transports`
TransportStep(s, e, f, i, t, bad) ==
  IF PassesLevel(e, t)
  THEN LET fr == Format(f, e)
           r == IF f # "nil"
                THEN IF fr.err
                     THEN [err |-> "format", out |-> <<>>, calls |-> <<>>]
                     ELSE writeFormatted(t, fr.data, bad)
                ELSE WriteLog(t, e, bad)
       IN <<[op |-> "write", who |-> i, t |-> t, err |-> r.err,
             out |-> r.out, calls |-> r.calls]>>
          \o (IF r.err # "nil" THEN ErrorHooks(s, t, r.err) ELSE <<>>)
  ELSE <<[op |-> "skip", who |-> i, t |-> t, err |-> "nil",
          out |-> <<>>, calls |-> <<>>]>>

\* Logger.snapshot
snapshot == [transports  |-> transports,
             beforeHooks |-> beforeHooks,
             afterHooks  |-> afterHooks,
             errorHooks  |-> errorHooks]

\* Entry of a log call: Logger.log / logWithFields /
\* logWithFieldsCustomFormatter take the snapshot and assemble the Entry;
\* log and logWithFields (f = "nil") add the stack trace when the policy
\* holds the level passed.  The fields the caller, Fatal and Panic supply
\* are the subject of SpecAssembly.
Start(p, k, lvl, msg, f) ==
  /\ ~exited
  /\ pc[p] \in {"idle", "returned"}
  /\ ncalls[p] < MaxCalls
  /\ k \in {"fatal", "panic"} => lvl = ERROR /\ f = "nil"
  /\ ncalls' = [ncalls EXCEPT ![p] = @ + 1]
  /\ kind' = [kind EXCEPT ![p] = k]
  /\ entry' = [entry EXCEPT
                 ![p] = [Level |-> lvl, Message |-> msg,
                         Fields |-> IF f = "nil" /\ PolicyOn(stacktrace, lvl)
                                    THEN <<"stacktrace">> ELSE <<>>]]
  /\ formatter' = [formatter EXCEPT ![p] = f]
  /\ snap' = [snap EXCEPT ![p] = snapshot]
  /\ snapList' = [snapList EXCEPT ![p] = SliceSeq(arrays, transports)]
  /\ idx' = [idx EXCEPT ![p] = 0]
  /\ trace' = [trace EXCEPT ![p] = <<>>]
  /\ pc' = [pc EXCEPT ![p] = "before"]
  /\ UNCHANGED loggerVars
  /\ UNCHANGED auxVars
  /\ UNCHANGED exited

\* A goroutine that makes up to MaxSeq calls on the Logger one after the
\* other, through Logger.Debug/Info/Error (f = "nil") or through
\* WithFormatter(f).Debug/Info/Error; the formatter of the call before is
\* remembered.
StartSeq(p, lvl, msg, f) ==
  /\ ~exited
  /\ pc[p] \in {"idle", "returned"}
  /\ ncalls[p] < MaxSeq
  /\ ncalls' = [ncalls EXCEPT ![p] = @ + 1]
  /\ prevFormatter' = [prevFormatter EXCEPT ![p] =
                         IF ncalls[p] = 0 THEN "none" ELSE formatter[p]]
  /\ kind' = [kind EXCEPT ![p] = "log"]
  /\ entry' = [entry EXCEPT
                 ![p] = [Level |-> lvl, Message |-> msg,
                         Fields |-> IF f = "nil" /\ PolicyOn(stacktrace, lvl)
                                    THEN <<"stacktrace">> ELSE <<>>]]
  /\ formatter' = [formatter EXCEPT ![p] = f]
  /\ snap' = [snap EXCEPT ![p] = snapshot]
  /\ snapList' = [snapList EXCEPT ![p] = SliceSeq(arrays, transports)]
  /\ idx' = [idx EXCEPT ![p] = 0]
  /\ trace' = [trace EXCEPT ![p] = <<>>]
  /\ pc' = [pc EXCEPT ![p] = "before"]
  /\ UNCHANGED loggerVars
  /\ UNCHANGED <<regVars, mergeVars, asmVars>>
  /\ UNCHANGED <<closePc, closeList, closeIdx, closed, firstErr, lockVars>>
  /\ UNCHANGED <<cfg, cfgIdx, cfgList, cfgRet, policy, levelMaps, polLocal>>
  /\ UNCHANGED exited

\* mutant of BeforeHooks: the after-hooks run together with the
\* before-hooks, ahead of the transports
BeforeHooksThenAfterHooks(p) ==
  /\ ~exited
  /\ pc[p] = "before"
  /\ trace' = [trace EXCEPT ![p] =
                 @ \o HookRecs("before", snap[p].beforeHooks, "-", "nil")
                   \o HookRecs("after", snap[p].afterHooks, "-", "nil")]
  /\ entry' = [entry EXCEPT ![p].Fields = @ \o HookKeys(snap[p].beforeHooks)
                                           \o HookKeys(snap[p].afterHooks),
                            ![p].Level = HookLevel(snap[p].beforeHooks, @)]
  /\ pc' = [pc EXCEPT ![p] =
              IF snap[p].transports.len = 0 THEN "after" ELSE "fanout"]
  /\ UNCHANGED loggerVars
  /\ UNCHANGED auxVars
  /\ UNCHANGED <<exited, kind, formatter, snap, snapList, idx, ncalls>>

\* mutant of BeforeHooks: the hooks are run on a copy of the level, the
\* filter sees the level passed to the call
BeforeHooksKeepLevel(p) ==
  /\ ~exited
  /\ pc[p] = "before"
  /\ trace' = [trace EXCEPT ![p] =
                 @ \o HookRecs("before", snap[p].beforeHooks, "-", "nil")]
  /\ entry' = [entry EXCEPT ![p].Fields = @ \o HookKeys(snap[p].beforeHooks)]
  /\ pc' = [pc EXCEPT ![p] =
              IF snap[p].transports.len = 0 THEN "after" ELSE "fanout"]
  /\ UNCHANGED loggerVars
  /\ UNCHANGED auxVars
  /\ UNCHANGED <<exited, kind, formatter, snap, snapList, idx, ncalls>>

\* dispatchEntry, first loop
BeforeHooks(p) ==
  /\ ~exited
  /\ pc[p] = "before"
  /\ trace' = [trace EXCEPT ![p] =
                 @ \o HookRecs("before", snap[p].beforeHooks, "-", "nil")]
  /\ entry' = [entry EXCEPT ![p].Fields = @ \o HookKeys(snap[p].beforeHooks),
                            ![p].Level = HookLevel(snap[p].beforeHooks, @)]
  /\ pc' = [pc EXCEPT ![p] =
              IF snap[p].transports.len = 0 THEN "after" ELSE "fanout"]
  /\ UNCHANGED loggerVars
  /\ UNCHANGED auxVars
  /\ UNCHANGED <<exited, kind, formatter, snap, snapList, idx, ncalls>>

\* mutant of LoopNext: the loop is left after a failed write
LoopNextStopOnError(i, n, tr) ==
  IF i = n \/ (Len(tr) > 0 /\ tr[Len(tr)].err # "nil") THEN "after"
  ELSE "fanout"

\* the range loop goes on to the next element until the last one was
\* iterated, whatever the iteration did (tr is the trace so far)
LoopNext(i, n, tr) == IF i = n THEN "after" ELSE "fanout"

\* the writer transport that ends up writing for transport t
WriterOf(t) == IF TransportKind(t) = "filter" THEN WrappedOf(t) ELSE t

\* the transports Close was called on: every write to their file fails
ClosedFiles == {closed[i].t : i \in DOMAIN closed}

\* mutant of FanOut: a per-call formatter is installed as the transport's own
\* Formatter
FanOutSetsFormatter(p) ==
  /\ ~exited
  /\ pc[p] = "fanout"
  /\ idx[p] < snap[p].transports.len
  /\ LET t == arrays[snap[p].transports.arr][idx[p] + 1]
     IN /\ trace' = [trace EXCEPT ![p] =
                       @ \o TransportStep(snap[p], entry[p], formatter[p],
                                          idx[p] + 1, t,
                                       failing \cup ClosedFiles)]
        /\ tformatter' =
             IF formatter[p] # "nil" /\ WriterOf(t) \in Sinks
             THEN [tformatter EXCEPT ![WriterOf(t)] = formatter[p]]
             ELSE tformatter
  /\ idx' = [idx EXCEPT ![p] = @ + 1]
  /\ pc' = [pc EXCEPT ![p] =
              LoopNext(idx[p] + 1, snap[p].transports.len, trace'[p])]
  /\ UNCHANGED <<arrays, transports, beforeHooks, afterHooks, errorHooks,
                 nOps, failing>>
  /\ UNCHANGED auxVars
  /\ UNCHANGED <<exited, kind, entry, formatter, snap, snapList, ncalls>>

\* mutant of FanOut: a transport whose write failed is tried again
FanOutRetries(p) ==
  /\ ~exited
  /\ pc[p] = "fanout"
  /\ idx[p] < snap[p].transports.len
  /\ LET t == arrays[snap[p].transports.arr][idx[p] + 1]
     IN trace' = [trace EXCEPT ![p] =
                    @ \o TransportStep(snap[p], entry[p], formatter[p],
                                       idx[p] + 1, t,
                                       failing \cup ClosedFiles)]
  /\ idx' = [idx EXCEPT ![p] =
               IF trace'[p][Len(trace'[p])].err # "nil" THEN @ ELSE @ + 1]
  /\ pc' = [pc EXCEPT ![p] =
              LoopNext(idx'[p], snap[p].transports.len, trace'[p])]
  /\ UNCHANGED loggerVars
  /\ UNCHANGED auxVars
  /\ UNCHANGED <<exited, kind, entry, formatter, snap, snapList, ncalls>>

\* dispatchEntry, one iteration of the transport loop: the element is read
\* from the backing array when the iteration starts
FanOut(p) ==
  /\ ~exited
  /\ pc[p] = "fanout"
  /\ idx[p] < snap[p].transports.len
  /\ LET t == arrays[snap[p].transports.arr][idx[p] + 1]
     IN trace' = [trace EXCEPT ![p] =
                    @ \o TransportStep(snap[p], entry[p], formatter[p],
                                       idx[p] + 1, t,
                                       failing \cup ClosedFiles)]
  /\ idx' = [idx EXCEPT ![p] = @ + 1]
  /\ pc' = [pc EXCEPT ![p] =
              LoopNext(idx[p] + 1, snap[p].transports.len, trace'[p])]
  /\ UNCHANGED loggerVars
  /\ UNCHANGED auxVars
  /\ UNCHANGED <<exited, kind, entry, formatter, snap, snapList, ncalls>>

\* mutant of AfterHooks: ranges over the Logger's list, not the snapshot's
AfterHooksLive(p) ==
  /\ ~exited
  /\ pc[p] = "after"
  /\ trace' = [trace EXCEPT ![p] =
                 @ \o HookRecs("after", afterHooks, "-", "nil")]
  /\ entry' = [entry EXCEPT ![p].Fields = @ \o HookKeys(afterHooks)]
  /\ pc' = [pc EXCEPT ![p] = "dispatched"]
  /\ UNCHANGED loggerVars
  /\ UNCHANGED auxVars
  /\ UNCHANGED <<exited, kind, formatter, snap, snapList, idx, ncalls>>

\* dispatchEntry, last loop
AfterHooks(p) ==
  /\ ~exited
  /\ pc[p] = "after"
  /\ trace' = [trace EXCEPT ![p] =
                 @ \o HookRecs("after", snap[p].afterHooks, "-", "nil")]
  /\ entry' = [entry EXCEPT ![p].Fields = @ \o HookKeys(snap[p].afterHooks)]
  /\ pc' = [pc EXCEPT ![p] = "dispatched"]
  /\ UNCHANGED loggerVars
  /\ UNCHANGED auxVars
  /\ UNCHANGED <<exited, kind, formatter, snap, snapList, idx, ncalls>>

\* mutant of Finish: Fatal and Panic take their terminal action without
\* waiting for the after-hooks
FinishBeforeAfterHooks(p, recovered) ==
  /\ ~exited
  /\ \/ pc[p] = "dispatched"
     \/ pc[p] = "after" /\ kind[p] \in {"fatal", "panic"}
  /\ pc' = [pc EXCEPT ![p] =
              CASE kind[p] = "fatal" -> "exited"
                [] kind[p] = "panic" -> "panicked"
                [] OTHER -> "returned"]
  /\ exited' = (kind[p] = "fatal" \/ (kind[p] = "panic" /\ ~recovered))
  /\ UNCHANGED loggerVars
  /\ UNCHANGED auxVars
  /\ UNCHANGED <<kind, entry, formatter, snap, snapList, idx, trace, ncalls>>

\* mutant of Finish: a transport error of a normal call is raised as a panic
FinishPanicsOnError(p, recovered) ==
  /\ ~exited
  /\ pc[p] = "dispatched"
  /\ pc' = [pc EXCEPT ![p] =
              CASE kind[p] = "fatal" -> "exited"
                [] kind[p] = "panic" -> "panicked"
                [] \E i \in DOMAIN trace[p] : trace[p][i].err # "nil"
                     -> "panicked"
                [] OTHER -> "returned"]
  /\ exited' = (kind[p] = "fatal" \/ (kind[p] = "panic" /\ ~recovered))
  /\ UNCHANGED loggerVars
  /\ UNCHANGED auxVars
  /\ UNCHANGED <<kind, entry, formatter, snap, snapList, idx, trace, ncalls>>

\* what follows dispatchEntry: return to the caller, os.Exit(1) in Fatal,
\* panic(message) in Panic (which ends the process unless a caller recovers)
Finish(p, recovered) ==
  /\ ~exited
  /\ pc[p] = "dispatched"
  /\ pc' = [pc EXCEPT ![p] =
              CASE kind[p] = "fatal" -> "exited"
                [] kind[p] = "panic" -> "panicked"
                [] OTHER -> "returned"]
  /\ exited' = (kind[p] = "fatal" \/ (kind[p] = "panic" /\ ~recovered))
  /\ UNCHANGED loggerVars
  /\ UNCHANGED auxVars
  /\ UNCHANGED <<kind, entry, formatter, snap, snapList, idx, trace, ncalls>>

Next ==
  \/ \E t \in Transports : AddTransport(t)
  \/ \E t \in Transports : RemoveTransport(t)
  \/ \E b \in BOOLEAN : AddHook(b)
  \/ AddErrorHook
  \/ \E p \in Procs, k \in {"log", "fatal", "panic"}, lvl \in LogLevels,
        msg \in Messages, f \in Overrides : Start(p, k, lvl, msg, f)
  \/ \E p \in Procs : BeforeHooks(p)
  \/ \E p \in Procs : FanOut(p)
  \/ \E p \in Procs : AfterHooks(p)
  \/ \E p \in Procs, recovered \in BOOLEAN : Finish(p, recovered)

Spec == Init /\ [][Next]_vars

\* A call runs on the goroutine of its caller: once started, each loop of
\* dispatchEntry and the return are taken as soon as the hooks, formatter and
\* writes of the step before have returned, so every step of a running call
\* is weakly fair. Nothing obliges the program to reconfigure the Logger or
\* to start a call.
LiveDispatch ==
  /\ Spec
  /\ \A p \in Procs :
       /\ WF_vars(BeforeHooks(p))
       /\ WF_vars(FanOut(p))
       /\ WF_vars(AfterHooks(p))
       /\ WF_vars(\E recovered \in BOOLEAN : Finish(p, recovered))

\* AddHook(hook, true) for a hook that sets entry.Level = DEBUG
AddLevelHook ==
  /\ ~exited
  /\ nOps < MaxOps
  /\ nOps' = nOps + 1
  /\ beforeHooks' = Append(beforeHooks, 0)
  /\ UNCHANGED <<arrays, transports, afterHooks, errorHooks, exited, failing,
                 tformatter>>
  /\ UNCHANGED callVars
  /\ UNCHANGED auxVars

\* Calls of Logger.Debug/Info/Error on a Logger whose before-hooks may
\* change the level and whose stacktrace policy may be enabled
NextLevelHook ==
  \/ AddLevelHook
  \/ \E b \in BOOLEAN : AddHook(b)
  \/ \E levels \in StackLevelSets : EnableStacktrace(levels)
  \/ \E p \in Procs, lvl \in LogLevels, msg \in Messages :
       Start(p, "log", lvl, msg, "nil")
  \/ \E p \in Procs : BeforeHooks(p)
  \/ \E p \in Procs : FanOut(p)
  \/ \E p \in Procs : AfterHooks(p)
  \/ \E p \in Procs, recovered \in BOOLEAN : Finish(p, recovered)

SpecLevelHook == Init /\ [][NextLevelHook]_vars

\* A Logger holding a *FileTransport that is closed before, while or after
\* it is logged to
NextCloseLog ==
  \/ AddTransport("file")
  \/ AddErrorHook
  \/ \E fails \in BOOLEAN : LoggerClose(fails)
  \/ \E p \in Procs, lvl \in LogLevels, msg \in Messages, f \in Overrides :
       Start(p, "log", lvl, msg, f)
  \/ \E p \in Procs : BeforeHooks(p)
  \/ \E p \in Procs : FanOut(p)
  \/ \E p \in Procs : AfterHooks(p)
  \/ \E p \in Procs, recovered \in BOOLEAN : Finish(p, recovered)

SpecCloseLog == Init /\ [][NextCloseLog]_vars

\* One Logger, never reconfigured, called MaxSeq times in a row
NextOverride ==
  \/ \E p \in Procs, lvl \in LogLevels, msg \in Messages, f \in Overrides :
       StartSeq(p, lvl, msg, f)
  \/ \E p \in Procs : BeforeHooks(p)
  \/ \E p \in Procs : FanOut(p)
  \/ \E p \in Procs : AfterHooks(p)
  \/ \E p \in Procs, recovered \in BOOLEAN : Finish(p, recovered)

SpecOverride == Init /\ [][NextOverride]_vars

\* ------------------------------------------------ calls under Logger.mu
\* AddTransport, RemoveTransport, AddHook, AddErrorHook, EnableStacktrace:
\* the call, l.mu.Lock(), the body, the deferred Unlock.
LockedConfig(p, c) ==
  /\ \/ /\ lockPc[p] = "idle"
        /\ nOps + Cardinality({q \in LockProcs :
                                 lockPc[q] \in {"cwait", "locked"}}) < MaxOps
        /\ lockPc' = [lockPc EXCEPT ![p] = "cwait"]
        /\ lockArg' = [lockArg EXCEPT ![p] = c]
        /\ UNCHANGED <<mu, history, arrays, transports, beforeHooks,
                       afterHooks, errorHooks, nOps, stacktrace>>
     \/ /\ lockPc[p] = "cwait"
        /\ ~mu.w /\ mu.r = 0
        /\ mu' = [mu EXCEPT !.w = TRUE]
        /\ lockPc' = [lockPc EXCEPT ![p] = "locked"]
        /\ UNCHANGED <<lockArg, history, arrays, transports, beforeHooks,
                       afterHooks, errorHooks, nOps, stacktrace>>
     \/ /\ lockPc[p] = "locked"
        /\ lockPc' = [lockPc EXCEPT ![p] = "mutated"]
        /\ nOps' = nOps + 1
        /\ LET op == lockArg[p].op
               t == lockArg[p].t
               i == FirstIndex(arrays, transports, t)
               r == IF op = "AddTransport"
                    THEN AppendSlice(arrays, transports, t)
                    ELSE IF op = "RemoveTransport" /\ i # 0
                    THEN DeleteAt(arrays, transports, i)
                    ELSE [arrays |-> arrays, slice |-> transports]
           IN /\ arrays' = r.arrays
              /\ transports' = r.slice
              /\ history' = IF op \in {"AddTransport", "RemoveTransport"}
                            THEN Append(history, lockArg[p]) ELSE history
              /\ beforeHooks' = IF op = "AddHook" /\ t = "before"
                                THEN Append(beforeHooks, nOps + 1)
                                ELSE beforeHooks
              /\ afterHooks' = IF op = "AddHook" /\ t = "after"
                               THEN Append(afterHooks, nOps + 1)
                               ELSE afterHooks
              /\ errorHooks' = IF op = "AddErrorHook"
                               THEN Append(errorHooks, nOps + 1)
                               ELSE errorHooks
              /\ stacktrace' = IF op = "EnableStacktrace"
                               THEN [Enabled |-> TRUE, Levels |-> {ERROR}]
                               ELSE stacktrace
        /\ UNCHANGED <<mu, lockArg>>
     \/ /\ lockPc[p] = "mutated"
        /\ mu' = [mu EXCEPT !.w = FALSE]
        /\ lockPc' = [lockPc EXCEPT ![p] = "idle"]
        /\ lockArg' = [lockArg EXCEPT ![p] = [op |-> "none", t |-> "-"]]
        /\ UNCHANGED <<history, arrays, transports, beforeHooks, afterHooks,
                       errorHooks, nOps, stacktrace>>
  /\ UNCHANGED <<lockSnap, lockIdx, failing, tformatter, callVars, exited>>
  /\ UNCHANGED <<regVars, seqVars, mergeVars>>
  /\ UNCHANGED <<heap, children, event, injects, literal>>
  /\ UNCHANGED <<closePc, closeList, closeIdx, closed, firstErr>>
  /\ UNCHANGED <<cfg, cfgIdx, cfgList, cfgRet, policy, levelMaps, polLocal>>

\* mutant of LockedLog: the read lock is released when the call returns
LockedLogHoldsLock(p, fails) ==
  LET n == lockSnap[p].transports.len
      next == IF lockIdx[p] + 1 < n THEN "writing" ELSE "after"
  IN
  /\ \/ /\ lockPc[p] = "idle"
        /\ lockPc' = [lockPc EXCEPT ![p] = "lwait"]
        /\ UNCHANGED <<mu, lockSnap, lockIdx>>
     \/ /\ lockPc[p] = "lwait"
        /\ ~mu.w /\ \A q \in LockProcs : lockPc[q] # "cwait"
        /\ mu' = [mu EXCEPT !.r = @ + 1]
        /\ lockPc' = [lockPc EXCEPT ![p] = "snap"]
        /\ UNCHANGED <<lockSnap, lockIdx>>
     \/ /\ lockPc[p] = "snap"
        /\ lockSnap' = [lockSnap EXCEPT ![p] = snapshot]
        /\ lockIdx' = [lockIdx EXCEPT ![p] = 0]
        /\ lockPc' = [lockPc EXCEPT ![p] = "before"]
        /\ UNCHANGED mu
     \/ /\ lockPc[p] = "before"
        /\ lockPc' = [lockPc EXCEPT ![p] = IF n = 0 THEN "after" ELSE "writing"]
        /\ UNCHANGED <<mu, lockSnap, lockIdx>>
     \/ /\ lockPc[p] = "writing"
        /\ IF fails /\ lockSnap[p].errorHooks # <<>>
           THEN /\ lockPc' = [lockPc EXCEPT ![p] = "errhook"]
                /\ UNCHANGED lockIdx
           ELSE /\ lockPc' = [lockPc EXCEPT ![p] = next]
                /\ lockIdx' = [lockIdx EXCEPT ![p] = @ + 1]
        /\ UNCHANGED <<mu, lockSnap>>
     \/ /\ lockPc[p] = "errhook"
        /\ lockPc' = [lockPc EXCEPT ![p] = next]
        /\ lockIdx' = [lockIdx EXCEPT ![p] = @ + 1]
        /\ UNCHANGED <<mu, lockSnap>>
     \/ /\ lockPc[p] = "after"
        /\ mu' = [mu EXCEPT !.r = @ - 1]
        /\ lockPc' = [lockPc EXCEPT ![p] = "idle"]
        /\ lockSnap' = [lockSnap EXCEPT ![p] = NoSnap]
        /\ lockIdx' = [lockIdx EXCEPT ![p] = 0]
  /\ UNCHANGED <<lockArg, history, loggerVars, callVars, exited>>
  /\ UNCHANGED <<regVars, seqVars, mergeVars, asmVars>>
  /\ UNCHANGED <<closePc, closeList, closeIdx, closed, firstErr>>
  /\ UNCHANGED <<cfg, cfgIdx, cfgList, cfgRet, policy, levelMaps, polLocal>>

\* A log call: the call, snapshot() (RLock, which waits while a writer holds
\* or awaits the lock; the copy and the deferred RUnlock), then
\* dispatchEntry: the before-hooks, for each transport of the snapshot the
\* write (fails: it returns an error) and the error-hooks, the after-hooks.
\* A goroutine at "before", "writing", "errhook" or "after" is inside the
\* hook or the write.
LockedLog(p, fails) ==
  LET n == lockSnap[p].transports.len
      next == IF lockIdx[p] + 1 < n THEN "writing" ELSE "after"
  IN
  /\ \/ /\ lockPc[p] = "idle"
        /\ lockPc' = [lockPc EXCEPT ![p] = "lwait"]
        /\ UNCHANGED <<mu, lockSnap, lockIdx>>
     \/ /\ lockPc[p] = "lwait"
        /\ ~mu.w /\ \A q \in LockProcs : lockPc[q] # "cwait"
        /\ mu' = [mu EXCEPT !.r = @ + 1]
        /\ lockPc' = [lockPc EXCEPT ![p] = "snap"]
        /\ UNCHANGED <<lockSnap, lockIdx>>
     \/ /\ lockPc[p] = "snap"
        /\ lockSnap' = [lockSnap EXCEPT ![p] = snapshot]
        /\ lockIdx' = [lockIdx EXCEPT ![p] = 0]
        /\ mu' = [mu EXCEPT !.r = @ - 1]
        /\ lockPc' = [lockPc EXCEPT ![p] = "before"]
     \/ /\ lockPc[p] = "before"
        /\ lockPc' = [lockPc EXCEPT ![p] = IF n = 0 THEN "after" ELSE "writing"]
        /\ UNCHANGED <<mu, lockSnap, lockIdx>>
     \/ /\ lockPc[p] = "writing"
        /\ IF fails /\ lockSnap[p].errorHooks # <<>>
           THEN /\ lockPc' = [lockPc EXCEPT ![p] = "errhook"]
                /\ UNCHANGED lockIdx
           ELSE /\ lockPc' = [lockPc EXCEPT ![p] = next]
                /\ lockIdx' = [lockIdx EXCEPT ![p] = @ + 1]
        /\ UNCHANGED <<mu, lockSnap>>
     \/ /\ lockPc[p] = "errhook"
        /\ lockPc' = [lockPc EXCEPT ![p] = next]
        /\ lockIdx' = [lockIdx EXCEPT ![p] = @ + 1]
        /\ UNCHANGED <<mu, lockSnap>>
     \/ /\ lockPc[p] = "after"
        /\ lockPc' = [lockPc EXCEPT ![p] = "idle"]
        /\ lockSnap' = [lockSnap EXCEPT ![p] = NoSnap]
        /\ lockIdx' = [lockIdx EXCEPT ![p] = 0]
        /\ UNCHANGED mu
  /\ UNCHANGED <<lockArg, history, loggerVars, callVars, exited>>
  /\ UNCHANGED <<regVars, seqVars, mergeVars, asmVars>>
  /\ UNCHANGED <<closePc, closeList, closeIdx, closed, firstErr>>
  /\ UNCHANGED <<cfg, cfgIdx, cfgList, cfgRet, policy, levelMaps, polLocal>>

NextLock ==
  \E p \in LockProcs :
    \/ \E c \in ConfigCalls : LockedConfig(p, c)
    \/ \E fails \in BOOLEAN : LockedLog(p, fails)

SpecLock == Init /\ [][NextLock]_vars

\* Every lock operation that can proceed does, and so does the copy of the
\* snapshot; nothing is assumed of hooks and transport writes, which may
\* block for ever.
LiveLock ==
  /\ SpecLock
  /\ \A p \in LockProcs :
       /\ WF_vars(lockPc[p] # "idle" /\ \E c \in ConfigCalls : LockedConfig(p, c))
       /\ WF_vars(lockPc[p] \in {"lwait", "snap"}
                    /\ \E fails \in BOOLEAN : LockedLog(p, fails))

\* ------------------------------ EnableStacktrace against the snapshot
\* mutant of EnableStacktraceLocked: the map the policy already has is
\* emptied and filled again, a new one is made only the first time
EnableStacktraceInPlace(p, levels) ==
  /\ \/ /\ lockPc[p] = "idle"
        /\ Len(levelMaps) + Cardinality({q \in LockProcs :
              lockPc[q] \in {"ewait", "elocked", "enabled"}}) < MaxOps
        /\ lockPc' = [lockPc EXCEPT ![p] = "ewait"]
        /\ polLocal' = [polLocal EXCEPT ![p].todo = levels]
        /\ UNCHANGED <<mu, policy, levelMaps>>
     \/ /\ lockPc[p] = "ewait"
        /\ ~mu.w /\ mu.r = 0
        /\ mu' = [mu EXCEPT !.w = TRUE]
        /\ lockPc' = [lockPc EXCEPT ![p] = "elocked"]
        /\ UNCHANGED <<policy, levelMaps, polLocal>>
     \/ /\ lockPc[p] = "elocked"
        /\ policy' = [policy EXCEPT !.Enabled = TRUE]
        /\ lockPc' = [lockPc EXCEPT ![p] = "enabled"]
        /\ UNCHANGED <<mu, levelMaps, polLocal>>
     \/ /\ lockPc[p] = "enabled"
        /\ IF policy.Levels = 0
           THEN /\ levelMaps' = Append(levelMaps,
                                  [has |-> {}, arg |-> polLocal[p].todo])
                /\ policy' = [policy EXCEPT !.Levels = Len(levelMaps) + 1]
           ELSE /\ levelMaps' = [levelMaps EXCEPT ![policy.Levels] =
                                  [has |-> {}, arg |-> polLocal[p].todo]]
                /\ UNCHANGED policy
        /\ lockPc' = [lockPc EXCEPT ![p] = "filling"]
        /\ UNCHANGED <<mu, polLocal>>
     \/ /\ lockPc[p] = "filling"
        /\ \E lvl \in polLocal[p].todo :
             /\ levelMaps' = [levelMaps EXCEPT ![policy.Levels].has =
                                                 @ \cup {lvl}]
             /\ polLocal' = [polLocal EXCEPT ![p].todo = @ \ {lvl}]
        /\ UNCHANGED <<mu, lockPc, policy>>
     \/ /\ lockPc[p] = "filling"
        /\ polLocal[p].todo = {}
        /\ mu' = [mu EXCEPT !.w = FALSE]
        /\ lockPc' = [lockPc EXCEPT ![p] = "idle"]
        /\ UNCHANGED <<policy, levelMaps, polLocal>>
  /\ UNCHANGED <<lockArg, lockSnap, lockIdx, history>>
  /\ UNCHANGED <<loggerVars, callVars, exited, regVars, seqVars, mergeVars>>
  /\ UNCHANGED <<asmVars, closePc, closeList, closeIdx, closed, firstErr>>
  /\ UNCHANGED <<cfg, cfgIdx, cfgList, cfgRet>>

\* mutant of EnableStacktraceLocked: the new map starts with the levels of
\* the policy before
EnableStacktraceAdds(p, levels) ==
  /\ \/ /\ lockPc[p] = "idle"
        /\ Len(levelMaps) + Cardinality({q \in LockProcs :
              lockPc[q] \in {"ewait", "elocked", "enabled"}}) < MaxOps
        /\ lockPc' = [lockPc EXCEPT ![p] = "ewait"]
        /\ polLocal' = [polLocal EXCEPT ![p].todo = levels]
        /\ UNCHANGED <<mu, policy, levelMaps>>
     \/ /\ lockPc[p] = "ewait"
        /\ ~mu.w /\ mu.r = 0
        /\ mu' = [mu EXCEPT !.w = TRUE]
        /\ lockPc' = [lockPc EXCEPT ![p] = "elocked"]
        /\ UNCHANGED <<policy, levelMaps, polLocal>>
     \/ /\ lockPc[p] = "elocked"
        /\ policy' = [policy EXCEPT !.Enabled = TRUE]
        /\ lockPc' = [lockPc EXCEPT ![p] = "enabled"]
        /\ UNCHANGED <<mu, levelMaps, polLocal>>
     \/ /\ lockPc[p] = "enabled"
        /\ levelMaps' = Append(levelMaps,
               [has |-> IF policy.Levels = 0 THEN {}
                        ELSE levelMaps[policy.Levels].has,
                arg |-> polLocal[p].todo])
        /\ policy' = [policy EXCEPT !.Levels = Len(levelMaps) + 1]
        /\ lockPc' = [lockPc EXCEPT ![p] = "filling"]
        /\ UNCHANGED <<mu, polLocal>>
     \/ /\ lockPc[p] = "filling"
        /\ \E lvl \in polLocal[p].todo :
             /\ levelMaps' = [levelMaps EXCEPT ![policy.Levels].has =
                                                 @ \cup {lvl}]
             /\ polLocal' = [polLocal EXCEPT ![p].todo = @ \ {lvl}]
        /\ UNCHANGED <<mu, lockPc, policy>>
     \/ /\ lockPc[p] = "filling"
        /\ polLocal[p].todo = {}
        /\ mu' = [mu EXCEPT !.w = FALSE]
        /\ lockPc' = [lockPc EXCEPT ![p] = "idle"]
        /\ UNCHANGED <<policy, levelMaps, polLocal>>
  /\ UNCHANGED <<lockArg, lockSnap, lockIdx, history>>
  /\ UNCHANGED <<loggerVars, callVars, exited, regVars, seqVars, mergeVars>>
  /\ UNCHANGED <<asmVars, closePc, closeList, closeIdx, closed, firstErr>>
  /\ UNCHANGED <<cfg, cfgIdx, cfgList, cfgRet>>

\* Logger.EnableStacktrace(levels...) statement by statement: the call,
\* l.mu.Lock(), Enabled = true, Levels = make(map[Level]bool), one step per
\* iteration of the loop over levels, the deferred Unlock.  At most MaxOps
\* calls are made.
EnableStacktraceLocked(p, levels) ==
  /\ \/ /\ lockPc[p] = "idle"
        /\ Len(levelMaps) + Cardinality({q \in LockProcs :
              lockPc[q] \in {"ewait", "elocked", "enabled"}}) < MaxOps
        /\ lockPc' = [lockPc EXCEPT ![p] = "ewait"]
        /\ polLocal' = [polLocal EXCEPT ![p].todo = levels]
        /\ UNCHANGED <<mu, policy, levelMaps>>
     \/ /\ lockPc[p] = "ewait"
        /\ ~mu.w /\ mu.r = 0
        /\ mu' = [mu EXCEPT !.w = TRUE]
        /\ lockPc' = [lockPc EXCEPT ![p] = "elocked"]
        /\ UNCHANGED <<policy, levelMaps, polLocal>>
     \/ /\ lockPc[p] = "elocked"
        /\ policy' = [policy EXCEPT !.Enabled = TRUE]
        /\ lockPc' = [lockPc EXCEPT ![p] = "enabled"]
        /\ UNCHANGED <<mu, levelMaps, polLocal>>
     \/ /\ lockPc[p] = "enabled"
        /\ levelMaps' = Append(levelMaps,
                               [has |-> {}, arg |-> polLocal[p].todo])
        /\ policy' = [policy EXCEPT !.Levels = Len(levelMaps) + 1]
        /\ lockPc' = [lockPc EXCEPT ![p] = "filling"]
        /\ UNCHANGED <<mu, polLocal>>
     \/ /\ lockPc[p] = "filling"
        /\ \E lvl \in polLocal[p].todo :
             /\ levelMaps' = [levelMaps EXCEPT ![policy.Levels].has =
                                                 @ \cup {lvl}]
             /\ polLocal' = [polLocal EXCEPT ![p].todo = @ \ {lvl}]
        /\ UNCHANGED <<mu, lockPc, policy>>
     \/ /\ lockPc[p] = "filling"
        /\ polLocal[p].todo = {}
        /\ mu' = [mu EXCEPT !.w = FALSE]
        /\ lockPc' = [lockPc EXCEPT ![p] = "idle"]
        /\ UNCHANGED <<policy, levelMaps, polLocal>>
  /\ UNCHANGED <<lockArg, lockSnap, lockIdx, history>>
  /\ UNCHANGED <<loggerVars, callVars, exited, regVars, seqVars, mergeVars>>
  /\ UNCHANGED <<asmVars, closePc, closeList, closeIdx, closed, firstErr>>
  /\ UNCHANGED <<cfg, cfgIdx, cfgList, cfgRet>>

\* A log call at level lvl (Logger.log): the call, snapshot() (RLock, which
\* waits while a writer holds or awaits the lock; the copy of l.stacktrace
\* and the deferred RUnlock), the test
\* `snap.stacktrace.Enabled && snap.stacktrace.Levels[level]` (a nil map
\* holds no level), the dispatch and the return.
LogPolicy(p, lvl) ==
  /\ \/ /\ lockPc[p] = "idle"
        /\ lockPc' = [lockPc EXCEPT ![p] = "lwait"]
        /\ polLocal' = [polLocal EXCEPT ![p].lvl = lvl]
        /\ UNCHANGED mu
     \/ /\ lockPc[p] = "lwait"
        /\ ~mu.w /\ \A q \in LockProcs : lockPc[q] # "ewait"
        /\ mu' = [mu EXCEPT !.r = @ + 1]
        /\ lockPc' = [lockPc EXCEPT ![p] = "rlocked"]
        /\ UNCHANGED polLocal
     \/ /\ lockPc[p] = "rlocked"
        /\ polLocal' = [polLocal EXCEPT ![p].snap = policy]
        /\ mu' = [mu EXCEPT !.r = @ - 1]
        /\ lockPc' = [lockPc EXCEPT ![p] = "snapped"]
     \/ /\ lockPc[p] = "snapped"
        /\ LET sn == polLocal[p].snap
           IN polLocal' = [polLocal EXCEPT ![p].capture =
                /\ sn.Enabled
                /\ sn.Levels # 0
                /\ polLocal[p].lvl \in levelMaps[sn.Levels].has]
        /\ lockPc' = [lockPc EXCEPT ![p] = "decided"]
        /\ UNCHANGED mu
     \/ /\ lockPc[p] = "decided"
        /\ polLocal' = [polLocal EXCEPT ![p] = NoPolLocal]
        /\ lockPc' = [lockPc EXCEPT ![p] = "idle"]
        /\ UNCHANGED mu
  /\ UNCHANGED <<policy, levelMaps>>
  /\ UNCHANGED <<lockArg, lockSnap, lockIdx, history>>
  /\ UNCHANGED <<loggerVars, callVars, exited, regVars, seqVars, mergeVars>>
  /\ UNCHANGED <<asmVars, closePc, closeList, closeIdx, closed, firstErr>>
  /\ UNCHANGED <<cfg, cfgIdx, cfgList, cfgRet>>

NextPolicy ==
  \E p \in LockProcs :
    \/ \E levels \in {{}, {ERROR}, {INFO, ERROR}} :
         EnableStacktraceLocked(p, levels)
    \/ \E lvl \in {INFO, ERROR} : LogPolicy(p, lvl)

SpecPolicy == Init /\ [][NextPolicy]_vars

\* ------------------------------------------------------------ re-entrancy
\* One goroutine: the hook, WriteLog or error-hook that dispatchEntry ran
\* last (the one of the last record of the trace) has not returned yet, and
\* may call the Logger it is run by.
InsideCallback(p) ==
  /\ pc[p] \in {"fanout", "after", "dispatched"}
  /\ trace[p] # <<>>
  /\ trace[p][Len(trace[p])].op # "skip"

\* The goroutine configures the Logger between its log calls or, "k1" being
\* the call it makes from inside a callback of its log call, re-entrantly;
\* the callback returns, and the dispatch goes on, when that call has
\* returned.
NextReentry ==
  \/ \E p \in Procs, c \in ConfigCalls :
       /\ pc[p] \in {"idle", "returned"} \/ InsideCallback(p)
       /\ LockedConfig("k1", c)
  \/ \E p \in Procs, lvl \in LogLevels, msg \in Messages, f \in Overrides :
       lockPc["k1"] = "idle" /\ ~mu.w /\ Start(p, "log", lvl, msg, f)
  \/ \E p \in Procs : lockPc["k1"] = "idle" /\ BeforeHooks(p)
  \/ \E p \in Procs : lockPc["k1"] = "idle" /\ FanOut(p)
  \/ \E p \in Procs : lockPc["k1"] = "idle" /\ AfterHooks(p)
  \/ \E p \in Procs, recovered \in BOOLEAN :
       lockPc["k1"] = "idle" /\ Finish(p, recovered)

SpecReentry == Init /\ [][NextReentry]_vars

\* ------------------------------------------------- reading a call's trace
\* dispatchEntry has returned
Done(p) == pc[p] \in {"dispatched", "returned", "exited", "panicked"}

\* the transport loop of dispatchEntry is over
FanOutDone(p) == pc[p] = "after" \/ Done(p)

IsFanRec(r) == r.op \in {"write", "skip"}

\* the records of the transport loop, one per iteration
FanRecs(p) == SelectSeq(trace[p], IsFanRec)

\* number of times transport t was written in the call of p
WriteCount(p, t) ==
  Cardinality({i \in DOMAIN trace[p] :
                 trace[p][i].op = "write" /\ trace[p][i].t = t})

\* number of occurrences of t in the sequence l
Occurrences(l, t) == Cardinality({i \in DOMAIN l : l[i] = t})

\* ---------------------------------------------------------------- claims

\* C1: every transport that was in the transport list when a log call took
\* its snapshot, and whose MinLevel is <= the event level, is attempted for
\* that call, whatever AddTransport / RemoveTransport calls interleave.
C1_SnapshotTransportsAttempted ==
  \A p \in Procs :
    FanOutDone(p) =>
      \A i \in DOMAIN snapList[p] :
        entry[p].Level >= MinLevel(snapList[p][i]) =>
          WriteCount(p, snapList[p][i]) > 0

\* C2: a transport never receives the event of a log call whose snapshot
\* did not contain it, i.e. one taken before the transport was added.
C2_NoWriteOutsideSnapshot ==
  \A p \in Procs :
    \A i \in DOMAIN trace[p] :
      trace[p][i].op = "write" =>
        Occurrences(snapList[p], trace[p][i].t) > 0

\* C3: for one log call, each transport passing the level filter is written
\* exactly as many times as it occurs in the transport list at snapshot time.
C3_WritesMatchSnapshot ==
  \A p \in Procs :
    FanOutDone(p) =>
      \A t \in Transports :
        entry[p].Level >= MinLevel(t) =>
          WriteCount(p, t) = Occurrences(snapList[p], t)

C6_ErrorHooks ==
  \A p \in Procs :
    LET tr == trace[p]
        eh == snap[p].errorHooks
    IN \A i \in DOMAIN tr :
         /\ tr[i].op = "write" /\ tr[i].err # "nil" =>
              /\ i + Len(eh) <= Len(tr)
              /\ \A j \in 1..Len(eh) :
                   /\ tr[i + j].op = "errhook"
                   /\ tr[i + j].who = eh[j]
                   /\ tr[i + j].t = tr[i].t
                   /\ tr[i + j].err = tr[i].err
              /\ i + Len(eh) < Len(tr) => tr[i + Len(eh) + 1].op # "errhook"
         /\ tr[i].op = "errhook" =>
              \E k \in 1..(i - 1) :
                /\ tr[k].op = "write" /\ tr[k].err # "nil"
                /\ i - k <= Len(eh)
         /\ tr[i].op \in {"skip", "before", "after"}
              \/ (tr[i].op = "write" /\ tr[i].err = "nil")
              => (i < Len(tr) => tr[i + 1].op # "errhook")

\* a failed write followed by two error hooks, and a successful write
C6_Witness ==
  \E p \in Procs :
    /\ Len(snap[p].errorHooks) = 2
    /\ \E i, j \in DOMAIN trace[p] :
         /\ trace[p][i].op = "write" /\ trace[p][i].err # "nil"
         /\ i + 2 <= Len(trace[p])
         /\ trace[p][i + 2].op = "errhook"
         /\ trace[p][j].op = "write" /\ trace[p][j].err = "nil"

\* C7: within one log call all before-hooks run in registration order before
\* any transport is iterated, transports are iterated in index order of the
\* list, and the after-hooks run in registration order only after the last
\* transport has been iterated.
C7_PipelineOrder ==
  \A p \in Procs :
    LET tr == trace[p]
        bh == snap[p].beforeHooks
        ah == snap[p].afterHooks
        nb == Len(bh)
    IN /\ pc[p] \notin {"idle", "before"} =>
            /\ Len(tr) >= nb
            /\ \A i \in 1..nb : tr[i].op = "before" /\ tr[i].who = bh[i]
       /\ \A i \in DOMAIN tr : tr[i].op = "before" => i <= nb
       /\ \A k \in DOMAIN FanRecs(p) : FanRecs(p)[k].who = k
       /\ \A i \in DOMAIN tr :
            tr[i].op = "after" =>
              /\ Done(p)
              /\ Len(FanRecs(p)) = snap[p].transports.len
              /\ i > Len(tr) - Len(ah)
       /\ Done(p) =>
            /\ Len(tr) >= nb + Len(ah)
            /\ \A j \in 1..Len(ah) :
                 /\ tr[Len(tr) - Len(ah) + j].op = "after"
                 /\ tr[Len(tr) - Len(ah) + j].who = ah[j]

\* a returned call that ran a before-hook, wrote a transport and ran an
\* after-hook
C7_Witness ==
  \E p \in Procs :
    /\ pc[p] = "returned"
    /\ Len(snap[p].beforeHooks) > 0
    /\ Len(snap[p].afterHooks) > 0
    /\ \E i \in DOMAIN trace[p] : trace[p][i].op = "write"

\* the whole dispatch of the call of p has been performed
CompleteDispatch(p) ==
  LET tr == trace[p]
      nb == Len(snap[p].beforeHooks)
      na == Len(snap[p].afterHooks)
      nf == Cardinality({i \in DOMAIN tr :
                           tr[i].op = "write" /\ tr[i].err # "nil"})
  IN /\ Len(FanRecs(p)) = snap[p].transports.len
     /\ \A k \in DOMAIN FanRecs(p) :
          PassesLevel(entry[p], FanRecs(p)[k].t) => FanRecs(p)[k].op = "write"
     /\ Cardinality({i \in DOMAIN tr : tr[i].op = "before"}) = nb
     /\ Cardinality({i \in DOMAIN tr : tr[i].op = "after"}) = na
     /\ Cardinality({i \in DOMAIN tr : tr[i].op = "errhook"})
          = nf * Len(snap[p].errorHooks)

\* C8: Fatal and Panic take their terminal action (process exit, panic) only
\* after the whole dispatch is complete, and a Fatal or Panic call leaves
\* dispatchEntry only through its terminal action, never by returning.
C8_TerminalInv ==
  \A p \in Procs :
    /\ pc[p] \in {"exited", "panicked"} =>
         kind[p] \in {"fatal", "panic"} /\ CompleteDispatch(p)
    /\ pc[p] = "exited" <=> (kind[p] = "fatal" /\ Done(p) /\ pc[p] # "dispatched")
    /\ pc[p] = "panicked" <=> (kind[p] = "panic" /\ Done(p) /\ pc[p] # "dispatched")
    /\ pc[p] = "exited" => exited

C8_TerminalStep ==
  \A p \in Procs :
    pc[p] = "dispatched" /\ pc'[p] # "dispatched" /\ kind[p] # "log" =>
      /\ pc'[p] = (IF kind[p] = "fatal" THEN "exited" ELSE "panicked")
      /\ kind[p] = "fatal" => exited'
      /\ trace'[p] = trace[p]

\* C8: every reachable state satisfies C8_TerminalInv (terminal action only
\* after the complete dispatch) and every step satisfies C8_TerminalStep (a
\* Fatal / Panic call leaves the dispatch only by its terminal action).
C8_FatalPanic == []C8_TerminalInv /\ [][C8_TerminalStep]_vars

\* Fatal has exited the process after a dispatch with a write and an
\* after-hook
C8_Witness ==
  \E p \in Procs :
    /\ pc[p] = "exited"
    /\ exited
    /\ Len(snap[p].afterHooks) > 0
    /\ \E i \in DOMAIN trace[p] : trace[p][i].op = "write"

\* C9: a normal log call returns to its caller whatever errors transports
\* or formatters return; with no error-hook in the snapshot a failed write
\* leaves nothing behind but the missing output.
C9_NormalCallInv ==
  \A p \in Procs :
    kind[p] = "log" =>
      /\ pc[p] \notin {"exited", "panicked"}
      /\ Done(p) => pc[p] \in {"dispatched", "returned"} /\ CompleteDispatch(p)
      /\ snap[p].errorHooks = <<>> =>
           \A i \in DOMAIN trace[p] : trace[p][i].op # "errhook"

C9_NormalCallStep ==
  \A p \in Procs :
    kind[p] = "log" /\ pc[p] \in {"fanout", "dispatched"} /\ pc'[p] # pc[p] =>
      /\ UNCHANGED loggerVars
      /\ exited' = exited
      /\ pc[p] = "dispatched" => pc'[p] = "returned"

\* C9: every reachable state satisfies C9_NormalCallInv (a normal call never
\* exits or panics, and runs no error-hook when none is registered) and
\* every step of a normal call satisfies C9_NormalCallStep (it changes no
\* Logger state and ends by returning).
C9_NormalCallReturns == []C9_NormalCallInv /\ [][C9_NormalCallStep]_vars

\* a normal call has returned after a sink error and a formatter error
\* with no error-hook registered
C9_Witness ==
  \E p \in Procs :
    /\ pc[p] = "returned"
    /\ kind[p] = "log"
    /\ snap[p].errorHooks = <<>>
    /\ \E i \in DOMAIN trace[p] :
         trace[p][i].op = "write" /\ trace[p][i].err # "nil"

\* C10: whenever WriteLog of a TransportWithFilter is called with an entry,
\* the wrapped transport's WriteLog is called (with that entry) if and only
\* if the predicate holds for the entry; when it does not hold the call
\* reports success, nothing is written and no error-hook runs; MinLevel()
\* of the decorator equals MinLevel() of the wrapped transport.
C10_FilterDecorator ==
  /\ \A t \in Transports :
       TransportKind(t) = "filter" => MinLevel(t) = MinLevel(WrappedOf(t))
  /\ \A p \in Procs :
       \A i \in DOMAIN trace[p] :
         LET r == trace[p][i]
         IN \A c \in DOMAIN r.calls :
              TransportKind(r.calls[c].t) = "filter" =>
                /\ Filter(r.calls[c].e) <=>
                     /\ c < Len(r.calls)
                     /\ r.calls[c + 1].t = WrappedOf(r.calls[c].t)
                     /\ r.calls[c + 1].e = r.calls[c].e
                /\ ~Filter(r.calls[c].e) =>
                     /\ r.err = "nil"
                     /\ r.out = <<>>
                     /\ i < Len(trace[p]) => trace[p][i + 1].op # "errhook"
                /\ Filter(r.calls[c].e) =>
                     /\ Len(r.out) = 1
                     /\ r.out[1].sink = WrappedOf(r.calls[c].t)
                     /\ r.err = SinkErr(r.out[1].ok)

\* the decorator dropped an entry although the wrapped transport's sink is
\* failing and an error-hook is registered, and the call went on
C10_Witness ==
  \E p \in Procs :
    /\ FanOutDone(p)
    /\ formatter[p] = "nil"
    /\ "W" \in failing
    /\ Len(snap[p].errorHooks) > 0
    /\ \E i \in DOMAIN trace[p] :
         /\ trace[p][i].op = "write"
         /\ trace[p][i].t = "F"
         /\ Len(trace[p][i].calls) = 1
         /\ ~Filter(entry[p])

\* the Format call made for write record r of the call of p returned an error
FormatFailed(p, r) ==
  IF formatter[p] # "nil" THEN Format(formatter[p], entry[p]).err
  ELSE \E c \in DOMAIN r.calls :
         /\ TransportKind(r.calls[c].t) = "writer"
         /\ Format(tformatter[r.calls[c].t], r.calls[c].e).err

\* C11: whenever Format returns an error during a log call (the transport's
\* own formatter or a per-call override, any transport kind) the fallback
\* line is written to that transport's sink and the error reported to the
\* error-hooks is the fallback write's own error, so that no error-hook
\* fires when the fallback write succeeds.
C11_FormatFallback ==
  \A p \in Procs :
    \A i \in DOMAIN trace[p] :
      LET r == trace[p][i]
      IN r.op = "write" /\ FormatFailed(p, r) =>
           /\ Len(r.out) = 1
           /\ r.out[1].data = FallbackLine(entry[p])
           /\ r.err = SinkErr(r.out[1].ok)
           /\ r.out[1].ok =>
                (i < Len(trace[p]) => trace[p][i + 1].op # "errhook")

C19_LevelRoundTrip ==
  \A v \in DOMAIN levelNames : ParseLevel(String(v)) = v

\* s is n up to the case of its letters
CaseVariant(s, n) == ToUpper(s) = ToUpper(n)

\* C20: for every registered name n, however it was cased when registered,
\* and every case variant s of n, ParseLevel(s) is the value registered for
\* n; for a string that is a case variant of no registered name it is INFO.
C20_ParseCaseInsensitive ==
  \A s \in ParseInputs :
    /\ \A n \in DOMAIN levelValues :
         CaseVariant(s, n) => ParseLevel(s) = levelValues[n]
    /\ (~\E n \in DOMAIN levelValues : CaseVariant(s, n))
         => ParseLevel(s) = INFO

\* the leaves of a field map, each with the path of keys that leads to it
RECURSIVE Leaves(_)
Leaves(m) ==
  UNION {IF IsMap(m[k])
         THEN {[path |-> <<k>> \o l.path, v |-> l.v] : l \in Leaves(m[k].m)}
         ELSE {[path |-> <<k>>, v |-> m[k].v]} : k \in DOMAIN m}

IsPrefix(q, p) == Len(q) <= Len(p) /\ SubSeq(p, 1, Len(q)) = q

\* src holds a leaf at, above or below the path
Shadowed(path, src) ==
  \E l \in Leaves(src) : IsPrefix(l.path, path) \/ IsPrefix(path, l.path)

\* C17: mergeFields leaves in dst every leaf of src (overlapping leaves take
\* the source value, source-only keys are added) and every leaf of the base
\* that src does not shadow (sibling keys are preserved at every depth), and
\* nothing else; the object emitted by the JSON formatter is that merge of
\* the event's fields into {timestamp, level, message}, so a field named
\* timestamp, level or message replaces the built-in value.
C17_RecursiveMerge ==
  mPhase \in {"merged", "json"} =>
    /\ Leaves(mOut) =
         Leaves(mSrc) \cup {l \in Leaves(mBase) : ~Shadowed(l.path, mSrc)}
    /\ mPhase = "json" =>
         /\ {"timestamp", "level", "message"} \subseteq DOMAIN mOut
         /\ \A k \in DOMAIN mSrc : mOut[k] = mSrc[k]
         /\ \A k \in DOMAIN mOut \ DOMAIN mSrc : mOut[k] = mBase[k]

\* a merge that overwrote a leaf nested two deep, kept a sibling key of the
\* base inside a nested map and added a key that only the source had
C17_Witness ==
  /\ mPhase = "merged"
  /\ [path |-> <<"request", "request", "request">>, v |-> "d"] \in Leaves(mBase)
  /\ [path |-> <<"request", "request", "request">>, v |-> "s"] \in Leaves(mOut)
  /\ [path |-> <<"request", "message">>, v |-> "d"] \in Leaves(mBase)
  /\ [path |-> <<"request", "message">>, v |-> "d"] \in Leaves(mOut)
  /\ "message" \notin DOMAIN mBase
  /\ [path |-> <<"message">>, v |-> "s"] \in Leaves(mOut)

\* C13: for every entry point, when the snapshotted stacktrace policy is
\* enabled and holds the call's level, the event handed to the before-hooks
\* carries a `stacktrace` field; when it does not, the event has no
\* `stacktrace` field that the caller did not supply.
C13_StacktracePolicy ==
  event.via \notin {"none", "fatal", "panic"} =>
    IF PolicyOn(event.policy, event.Level)
    THEN "stacktrace" \in DOMAIN event.seen
    ELSE "stacktrace" \in DOMAIN event.seen =>
           "stacktrace" \in DOMAIN event.callv \cup DOMAIN event.boundv

\* C14: the event of a context-aware call has `trace_id` set to the value
\* under the typed key if there is one, else to the value under the string
\* key if there is one, when the before-hooks receive it; the other fields
\* are the caller's, and with neither key the fields are exactly the
\* caller's.
C14_TraceID ==
  event.via = "ctx" =>
    /\ event.ctx.typed # "nil" =>
         /\ "trace_id" \in DOMAIN event.seen
         /\ event.seen["trace_id"] = Leaf(event.ctx.typed)
    /\ event.ctx.typed = "nil" /\ event.ctx.plain # "nil" =>
         /\ "trace_id" \in DOMAIN event.seen
         /\ event.seen["trace_id"] = Leaf(event.ctx.plain)
    /\ event.ctx.typed = "nil" /\ event.ctx.plain = "nil" =>
         event.seen = event.callv
    /\ DOMAIN event.seen \subseteq DOMAIN event.callv \cup {"trace_id"}
    /\ \A k \in DOMAIN event.callv \ {"trace_id"} :
         k \in DOMAIN event.seen /\ event.seen[k] = event.callv[k]

\* a context holding both keys gave the typed key's value to an event that
\* also carries the caller's fields, and a before-hook then injected a field
C14_Witness ==
  /\ event.via = "ctx"
  /\ event.ctx = [typed |-> "t", plain |-> "p"]
  /\ event.caller = CallFields
  /\ event.seen["trace_id"] = Leaf("t")
  /\ "user" \in DOMAIN event.seen
  /\ "hook" \in DOMAIN heap[CallFields]

\* C15 as stated: the key set of a child logger's event is the union of the
\* bound keys and the call-site keys, a collision takes the call-site value,
\* a bound key not supplied at the call site keeps its bound value.
C15_ChildMergeKeys ==
  event.via = "child" =>
    /\ DOMAIN event.seen = DOMAIN event.boundv \cup DOMAIN event.callv
    /\ \A k \in DOMAIN event.callv : event.seen[k] = event.callv[k]
    /\ \A k \in DOMAIN event.boundv \ DOMAIN event.callv :
         event.seen[k] = event.boundv[k]

\* the key the engine adds to the event of a call
EngineKeys(e) == IF PolicyOn(e.policy, e.Level) THEN {"stacktrace"} ELSE {}

\* C15, amended: the key set of a child logger's event is the union of the
\* bound keys and the call-site keys, plus `stacktrace` when the parent's
\* stacktrace policy holds the call's level; on every other key a collision
\* takes the call-site value and a bound key not supplied at the call site
\* keeps its bound value.
C15_ChildMergeTopLevel ==
  event.via = "child" =>
    /\ DOMAIN event.seen =
         DOMAIN event.boundv \cup DOMAIN event.callv \cup EngineKeys(event)
    /\ \A k \in DOMAIN event.callv \ EngineKeys(event) :
         event.seen[k] = event.callv[k]
    /\ \A k \in (DOMAIN event.boundv \ DOMAIN event.callv) \ EngineKeys(event) :
         event.seen[k] = event.boundv[k]

\* a child call under an enabled policy whose bound and call-site fields
\* collide on "request" and each hold a key of their own
C15_Witness ==
  /\ event.via = "child"
  /\ PolicyOn(event.policy, event.Level)
  /\ "request" \in DOMAIN event.boundv \cap DOMAIN event.callv
  /\ event.boundv["request"] # event.callv["request"]
  /\ event.seen["request"] = event.callv["request"]
  /\ event.seen["message"] = Leaf("d")
  /\ event.seen["user"] = Leaf("s")

\* C16: when the bound fields and the call-site fields both hold a nested
\* map under a key, the child logger's event holds under that key their
\* recursive merge: every leaf of the call-site map and every leaf of the
\* bound map that the call-site map does not shadow.
C16_ChildMergeNested ==
  event.via = "child" =>
    \A k \in DOMAIN event.boundv \cap DOMAIN event.callv :
      IsMap(event.boundv[k]) /\ IsMap(event.callv[k]) =>
        /\ k \in DOMAIN event.seen
        /\ IsMap(event.seen[k])
        /\ Leaves(event.seen[k].m) =
             Leaves(event.callv[k].m) \cup
             {l \in Leaves(event.boundv[k].m) :
                ~Shadowed(l.path, event.callv[k].m)}

\* C18 (states): the event of a call on a child logger holds no leaf of the
\* bound fields of a child logger bound to another map.
C18_NoForeignFields ==
  event.via = "child" =>
    \A c \in DOMAIN children :
      children[c] # children[event.child] =>
        Leaves(event.seen) \cap Leaves(heap[children[c]]) = {}

\* C18 (steps): no step changes the map bound to a child logger, and a call
\* on a child logger changes neither the parent's transports and hooks nor
\* its stacktrace policy nor the set of child loggers.
C18_BoundFieldsKept ==
  /\ \A c \in DOMAIN children : heap'[children[c]] = heap[children[c]]
  /\ event' # event /\ event'.via = "child" =>
       /\ stacktrace' = stacktrace
       /\ children' = children
       /\ UNCHANGED loggerVars

C21_RegisterStep ==
  \A name \in RegNames, value \in RegValues :
    RegisterLevel(name, value) =>
      /\ String(value)' = name
      /\ ParseLevel(name)' = value
      /\ \A old \in DOMAIN levelValues :
           levelValues[old] = value /\ old # name => ParseLevel(old)' # value
      /\ \A ov \in DOMAIN levelNames :
           levelNames[ov] = name /\ ov # value => String(ov)' # name

\* C21: every RegisterLevel(name, value) step leads to a state where
\* Level(value).String() is name and ParseLevel(name) is value, where no
\* name that was bound to value before still parses to value, and where no
\* value that was bound to name before still prints as name.
C21_RegisterOverwrites == [][C21_RegisterStep]_vars

\* C22: a String or ParseLevel call that holds the read lock never overlaps
\* a RegisterLevel between its Lock and its Unlock, at most one
\* RegisterLevel is between them at a time, and what the call returns is
\* the lookup in maps that no RegisterLevel has half applied.
C22_RegistryLinearizable ==
  LET Writers == {p \in RegProcs : regPc[p] \in {"locked", "named", "valued"}}
  IN
  /\ Cardinality(Writers) <= 1
  /\ \A p \in RegProcs :
       /\ regPc[p] \in {"rlocked", "read"} => Writers = {}
       /\ regPc[p] = "read" =>
            regRet[p] = IF regArg[p].op = "String"
                        THEN [regArg[p] EXCEPT !.name = String(regArg[p].value)]
                        ELSE [regArg[p] EXCEPT
                                !.value = ParseLevel(regArg[p].name)]

\* Level(3).String() returned TRACE, registered by a completed call, while
\* another goroutine's RegisterLevel waits for the lock
C22_Witness ==
  /\ regPc["r1"] = "read"
  /\ regArg["r1"].op = "String" /\ regArg["r1"].value = ERROR
  /\ regRet["r1"].name = NameTRACE
  /\ regPc["r2"] = "wcall"


\* C23: for every log call there is one point k in the sequence of
\* configuration calls such that the before-hooks it ran, the after-hooks
\* it ran and the error-hooks it ran after each failed write are, in
\* order, exactly the hooks of the respective list registered up to k,
\* whatever was registered while the call was running.
C23_HookSnapshot ==
  \A p \in Procs :
    \E k \in 0..nOps :
      LET tr == trace[p]
          UpTo(l) == SelectSeq(l, LAMBDA h : h <= k)
          Ran(o) == LET rs == SelectSeq(tr, LAMBDA r : r.op = o)
                    IN [i \in DOMAIN rs |-> rs[i].who]
          eh == UpTo(errorHooks)
      IN /\ pc[p] \notin {"idle", "before"} => Ran("before") = UpTo(beforeHooks)
         /\ Done(p) => Ran("after") = UpTo(afterHooks)
         /\ \A i \in DOMAIN tr :
              tr[i].op = "write" /\ tr[i].err # "nil" =>
                /\ i + Len(eh) <= Len(tr)
                /\ \A j \in 1..Len(eh) :
                     tr[i + j].op = "errhook" /\ tr[i + j].who = eh[j]
                /\ i + Len(eh) < Len(tr) => tr[i + Len(eh) + 1].op # "errhook"

\* a call that ran the before-hook registered ahead of it and has returned
\* without running the after-hook registered while it was in progress
C23_Witness ==
  \E p \in Procs :
    /\ pc[p] = "returned"
    /\ beforeHooks = <<1>> /\ afterHooks = <<2>>
    /\ snap[p].afterHooks = <<>>
    /\ \E i \in DOMAIN trace[p] :
         trace[p][i].op = "before" /\ trace[p][i].who = 1
    /\ \A i \in DOMAIN trace[p] : trace[p][i].op # "after"

\* C24 as stated: when Close has returned, every transport of the list that
\* supports closing was closed exactly once and no other transport was, an
\* error of one Close did not stop the following ones, and the value
\* returned is the error of the first transport in list order whose Close
\* failed, nil when none failed.
C24_CloseAll ==
  closePc = "returned" =>
    /\ \A i \in DOMAIN closeList :
         LET n == Cardinality({j \in DOMAIN closed :
                                 closed[j].t = closeList[i]})
         IN IF closeList[i] \in Closers THEN n = 1 ELSE n = 0
    /\ \A j \in DOMAIN closed : closed[j].t \in Closers
    /\ firstErr # 0 =>
         \E j \in DOMAIN closed :
           /\ closed[j].err = firstErr
           /\ \A k \in 1..(j - 1) : closed[k].err = 0
    /\ firstErr = 0 => \A j \in DOMAIN closed : closed[j].err = 0

\* C24, amended: when Close has returned, the Close calls it made are, in
\* list order, one for each element of the list that supports closing (a
\* transport that is in the list twice was closed twice), whatever errors
\* they returned, and the value returned is the error of the first of
\* these calls that failed, nil when none failed.
C24_CloseEachEntry ==
  closePc = "returned" =>
    /\ [j \in DOMAIN closed |-> closed[j].t]
         = SelectSeq(closeList, LAMBDA t : t \in Closers)
    /\ firstErr # 0 =>
         \E j \in DOMAIN closed :
           /\ closed[j].err = firstErr
           /\ closeList[firstErr] = closed[j].t
           /\ \A k \in 1..(j - 1) : closed[k].err = 0
    /\ firstErr = 0 => \A j \in DOMAIN closed : closed[j].err = 0

\* Close has returned the error of the first closeable transport after
\* closing a second one and skipping the transports that cannot be closed
C24_Witness ==
  /\ closePc = "returned"
  /\ closeList = <<"A", "F", "file", "rot">>
  /\ closed = <<[t |-> "file", err |-> 3], [t |-> "rot", err |-> 0]>>
  /\ firstErr = 3

\* Logger.mu is read-locked by exactly the goroutines copying a snapshot and
\* write-locked exactly while a configuration call is between its Lock and
\* its Unlock: a goroutine inside a hook or a transport write holds nothing.
C25_LockHolders ==
  /\ mu.r = Cardinality({p \in LockProcs : lockPc[p] = "snap"})
  /\ mu.w <=> \E p \in LockProcs : lockPc[p] \in {"locked", "mutated"}

\* C25: Logger.mu is held only while the snapshot is copied or a
\* configuration call runs its body, never by a goroutine that is inside a
\* before-hook, a transport write, an error-hook or an after-hook; so, with
\* hooks and writes free to block for ever, every configuration call that
\* was made completes and every log call that was made gets its snapshot.
C25_LockOnlyForSnapshot ==
  /\ []C25_LockHolders
  /\ \A p \in LockProcs :
       /\ (lockPc[p] = "cwait") ~> (lockPc[p] = "idle")
       /\ (lockPc[p] = "lwait") ~> (lockPc[p] = "before")

\* a configuration call holds the write lock, and has changed the list,
\* while the log call of the other goroutine is inside a transport write
C25_Witness ==
  /\ lockPc["k1"] = "writing"
  /\ lockPc["k2"] = "mutated"
  /\ lockArg["k2"].op = "AddTransport"
  /\ transports.len = lockSnap["k1"].transports.len + 1

\* C26: at every moment the Logger's transport list is the list obtained
\* from the initial one by the AddTransport and RemoveTransport calls applied
\* so far, one after the other in the order they got the lock, where Add
\* appends at the end and Remove deletes the first element identical to its
\* argument and nothing else (nothing when absent); its length is the
\* initial length plus the adds minus the removes that found their element.
C26_ListIntegrity ==
  LET init == CHOOSE l \in InitialLists : TRUE
      Has(l, t) == \E i \in DOMAIN l : l[i] = t
      RemoveFirst(l, t) ==
        IF ~Has(l, t) THEN l
        ELSE LET i == CHOOSE i \in DOMAIN l :
                        l[i] = t /\ \A j \in 1..(i - 1) : l[j] # t
             IN SubSeq(l, 1, i - 1) \o SubSeq(l, i + 1, Len(l))
      lists[k \in 0..Len(history)] ==
        IF k = 0 THEN init
        ELSE IF history[k].op = "AddTransport"
        THEN Append(lists[k - 1], history[k].t)
        ELSE RemoveFirst(lists[k - 1], history[k].t)
      adds == Cardinality({k \in DOMAIN history :
                             history[k].op = "AddTransport"})
      removes == Cardinality({k \in DOMAIN history :
                                /\ history[k].op = "RemoveTransport"
                                /\ Has(lists[k - 1], history[k].t)})
  IN /\ SliceSeq(arrays, transports) = lists[Len(history)]
     /\ transports.len = Len(init) + adds - removes

\* with a log call inside a transport write, A was added to the list A, F
\* and then removed: the first A is gone, the added one is kept
C26_Witness ==
  /\ lockPc["k1"] = "writing"
  /\ history = <<[op |-> "AddTransport", t |-> "A"],
                 [op |-> "RemoveTransport", t |-> "A"]>>
  /\ SliceSeq(arrays, transports) = <<"F", "A">>

\* the Entry of the call of p as its before-hooks left it
EntryAtFanOut(p) ==
  LET bs == SelectSeq(trace[p], LAMBDA r : r.op = "before")
  IN [Level |-> entry[p].Level, Message |-> entry[p].Message,
      Fields |-> HookKeys([i \in DOMAIN bs |-> bs[i].who])]

\* C27: every transport written in a log call is handed the event with the
\* fields the before-hooks of the call have set (the event itself, or the
\* bytes the per-call formatter made of it), and nothing a transport was
\* handed or wrote carries a field set by an after-hook.
C27_HookMutations ==
  \A p \in Procs :
    \A i \in DOMAIN trace[p] :
      LET r == trace[p][i]
          as == SelectSeq(trace[p], LAMBDA x : x.op = "after")
          ak == HookKeys([j \in DOMAIN as |-> as[j].who])
      IN r.op = "write" =>
           /\ r.calls # <<>> =>
                r.calls[1].e.Fields = EntryAtFanOut(p).Fields
           /\ r.calls = <<>> /\ r.out # <<>> =>
                r.out[1].data = Format(formatter[p], EntryAtFanOut(p)).data
           /\ \A k \in DOMAIN ak :
                /\ \A c \in DOMAIN r.calls :
                     ~Contains(r.calls[c].e.Fields, ak[k])
                     /\ ~Contains(r.calls[c].e.Message, ak[k])
                /\ \A o \in DOMAIN r.out : ~Contains(r.out[o].data, ak[k])

\* C29: in a log call made through WithFormatter whose formatter succeeds,
\* a filtering transport is handed the call's event, and its wrapped
\* transport is written exactly when the predicate holds for that event.
C29_FilterUnderOverride ==
  \A p \in Procs :
    \A i \in DOMAIN trace[p] :
      LET r == trace[p][i]
      IN r.op = "write" /\ formatter[p] # "nil" /\ r.err # "format"
         /\ TransportKind(r.t) = "filter" =>
           /\ r.calls # <<>>
           /\ r.calls[1].t = r.t
           /\ r.calls[1].e = EntryAtFanOut(p)
           /\ Filter(EntryAtFanOut(p)) <=> Len(r.calls) = 2

\* C28 as stated: NewLoggerFromConfig returns either a Logger whose list
\* holds, in order, one transport per entry with the level parsed from it,
\* or, some entry being of unknown type, an error and no Logger; it never
\* returns a Logger when an entry is of unknown type.
C28_ConfigAllOrUnknown ==
  cfgRet \in {"ok", "unknown type", "open failed"} =>
    LET unknown == \E i \in DOMAIN cfg : cfg[i].Type \notin {"console", "file"}
        ConfigTransport(i) ==
          [Type |-> cfg[i].Type, Level |-> ParseLevel(cfg[i].Level)]
    IN /\ \/ /\ cfgRet = "ok"
             /\ cfgList = [i \in DOMAIN cfg |-> ConfigTransport(i)]
          \/ cfgRet # "ok" /\ unknown
       /\ unknown => cfgRet # "ok"

\* C28, amended: NewLoggerFromConfig returns a Logger exactly when every
\* entry is of a known type and every file entry's file could be opened,
\* and the Logger's list then holds, in order, one transport per entry with
\* the level parsed from it; otherwise it returns no Logger and the error
\* of the first entry that is of unknown type or whose file cannot be
\* opened, the entries before it having been constructed.
C28_ConfigAllOrError ==
  cfgRet \in {"ok", "unknown type", "open failed"} =>
    LET ConfigTransport(i) ==
          [Type |-> cfg[i].Type, Level |-> ParseLevel(cfg[i].Level)]
        Bad(i) == \/ cfg[i].Type \notin {"console", "file"}
                  \/ cfg[i].Type = "file" /\ ~cfg[i].opens
        bad == {i \in DOMAIN cfg : Bad(i)}
    IN IF bad = {}
       THEN /\ cfgRet = "ok"
            /\ cfgList = [i \in DOMAIN cfg |-> ConfigTransport(i)]
       ELSE LET b == CHOOSE i \in bad : \A j \in bad : i <= j
            IN /\ cfgRet = IF cfg[b].Type = "file" THEN "open failed"
                           ELSE "unknown type"
               /\ cfgList = [i \in 1..(b - 1) |-> ConfigTransport(i)]

\* a Logger was returned for a console entry at DEBUG and a file entry whose
\* level was given in lower case
C28_Witness ==
  /\ cfgRet = "ok"
  /\ Len(cfg) = 2
  /\ cfgList = <<[Type |-> "console", Level |-> DEBUG],
                 [Type |-> "file", Level |-> ERROR]>>

\* C30: every log call terminates. While a call runs, the transport loop
\* never iterates past the snapshot's transport count and the hooks and
\* writes done for the call number at most: the snapshot's before-hooks, one
\* write (or skip) and one round of the snapshot's error hooks per snapshot
\* transport, the snapshot's after-hooks. Once dispatchEntry has returned no
\* further write or hook is done for the call. Every started call reaches
\* its end: a return to the caller for Debug/Info/Warn/Error, os.Exit for
\* Fatal, the panic for Panic.
C30_StepBound ==
  \A p \in Procs :
    /\ idx[p] <= snap[p].transports.len
    /\ Len(trace[p]) <=
         Len(snap[p].beforeHooks) + Len(snap[p].afterHooks)
         + snap[p].transports.len * (1 + Len(snap[p].errorHooks))

C30_NothingAfterReturn ==
  \A p \in Procs : Done(p) /\ Done(p)' => trace'[p] = trace[p]

C30_CallTerminates ==
  /\ []C30_StepBound
  /\ [][C30_NothingAfterReturn]_vars
  /\ \A p \in Procs :
       (pc[p] = "before") ~>
         (pc[p] = CASE kind[p] = "fatal" -> "exited"
                    [] kind[p] = "panic" -> "panicked"
                    [] OTHER -> "returned")

\* a call has returned after iterating every transport of its snapshot,
\* with a failed write that an error hook saw, while the Logger was
\* reconfigured under it
C30_Witness ==
  \E p \in Procs :
    /\ pc[p] = "returned"
    /\ idx[p] = snap[p].transports.len
    /\ idx[p] > 1
    /\ \E i \in DOMAIN trace[p] : trace[p][i].op = "errhook"
    /\ snapshot # snap[p]
\* C31: the event Fatal and Panic hand to the before-hooks has level ERROR
\* and holds a `stacktrace` field, whatever the stacktrace policy is and
\* whether or not the caller gave fields; every field the caller gave is in
\* that event with the caller's value.
C31_FatalEvent ==
  event.via \in {"fatal", "panic"} =>
    /\ event.Level = ERROR
    /\ "stacktrace" \in DOMAIN event.seen
    /\ \A key \in DOMAIN event.callv : key \in DOMAIN event.seen
                                        /\ event.seen[key] = event.callv[key]

\* Fatal was called with fields while the policy does not hold ERROR
C31_Witness ==
  /\ event.via = "fatal"
  /\ exited
  /\ ~PolicyOn(event.policy, ERROR)
  /\ event.caller = CallFields
  /\ event.callv # NoFields
\* C32: with a per-call formatter override, the override's Format is
\* invoked exactly once in a log call that reaches a transport, however many
\* transports pass the level filter (dispatchEntry invokes it in every
\* iteration of the transport loop that passes the filter: one invocation
\* per "write" record of the call).
C32_FormatOnce ==
  \A p \in Procs :
    LET formats == {i \in DOMAIN trace[p] : trace[p][i].op = "write"}
    IN Done(p) /\ formatter[p] # "nil" /\ formats # {}
         => Cardinality(formats) = 1
\* C33: the event of a log call owns its field map: after a call made with
\* a map of the caller as fields (ComFields, *Ctx, Fatal/Panic), that map
\* holds what the caller put into it and nothing else; no field written by
\* a before-hook, by stacktrace or trace-id injection or by Fatal/Panic is
\* in it.
C33_EventOwnsFields ==
  event.caller = CallFields /\ event.child = 0 => heap[CallFields] = literal
\* C34: a call to AddTransport, RemoveTransport, AddHook, AddErrorHook or
\* EnableStacktrace made from inside a hook, an error-hook or a transport of
\* a running dispatch never waits for a lock its own goroutine holds, and the
\* change it makes is not seen by the rest of that dispatch: every iteration
\* of the transport loop reads the transport the list held at that index when
\* the snapshot was taken.
C34_Reentrancy ==
  /\ lockPc["k1"] = "cwait" => ~mu.w /\ mu.r = 0
  /\ \A p \in Procs :
       \A i \in DOMAIN FanRecs(p) : FanRecs(p)[i].t = snapList[p][i]
\* C35: the stacktrace policy a log call holds in its snapshot is a complete
\* policy, the one before or the one after each EnableStacktrace call: the
\* policy of NewLogger, or Enabled with a level set that holds exactly the
\* levels one EnableStacktrace call was given; the call captures a stack
\* trace exactly when that policy holds its level; and the level set of a
\* snapshot is not modified while the call holds it.
C35_SnapshotComplete ==
  \A p \in LockProcs :
    lockPc[p] \in {"snapped", "decided"} =>
      LET sn == polLocal[p].snap
      IN IF sn.Enabled
         THEN /\ sn.Levels \in DOMAIN levelMaps
              /\ levelMaps[sn.Levels].has = levelMaps[sn.Levels].arg
              /\ lockPc[p] = "decided" =>
                   polLocal[p].capture =
                     (polLocal[p].lvl \in levelMaps[sn.Levels].arg)
         ELSE /\ sn.Levels = 0
              /\ ~polLocal[p].capture

C35_SnapshotFrozen ==
  \A p \in LockProcs :
    LET r == polLocal[p].snap.Levels
    IN lockPc[p] \in {"snapped", "decided"} /\ r # 0 =>
         levelMaps'[r] = levelMaps[r]

C35_PolicyAtomic == []C35_SnapshotComplete /\ [][C35_SnapshotFrozen]_vars

\* a call captures a stack trace from its snapshot while an EnableStacktrace
\* call made after the snapshot is filling the map of a new policy that
\* does not hold the call's level
C35_Witness ==
  \E p, q \in LockProcs :
    /\ lockPc[p] = "decided"
    /\ polLocal[p].capture
    /\ lockPc[q] = "filling"
    /\ polLocal[p].snap.Levels # policy.Levels
    /\ polLocal[p].lvl \notin levelMaps[policy.Levels].arg
\* C36: when an EnableStacktrace call has returned and none is running, the
\* policy is enabled and its level set is the map made by the last call to
\* run, holding exactly the levels that call was given (a level of an
\* earlier call that was not given again is not in it); and once the policy
\* is enabled no step disables it.
C36_ExactlyGiven ==
  (/\ levelMaps # <<>>
   /\ \A q \in LockProcs : lockPc[q] \notin {"elocked", "enabled", "filling"})
    => /\ policy.Enabled
       /\ policy.Levels = Len(levelMaps)
       /\ levelMaps[policy.Levels].has = levelMaps[policy.Levels].arg

C36_EnabledStays == policy.Enabled => policy'.Enabled

C36_PolicyReplaced == []C36_ExactlyGiven /\ [][C36_EnabledStays]_vars

\* after a second EnableStacktrace call that was not given a level of the
\* first, a log call at that level decides against a stack trace
C36_Witness ==
  \E p \in LockProcs :
    /\ Len(levelMaps) = 2
    /\ lockPc[p] = "decided"
    /\ polLocal[p].snap.Levels = 2
    /\ polLocal[p].lvl \in levelMaps[1].has
    /\ ~polLocal[p].capture
    /\ \A q \in LockProcs : lockPc[q] \notin {"elocked", "enabled", "filling"}
\* C37: the level filter of the fan-out sees the level the before-hooks
\* left in the event: when a before-hook of the snapshot sets the level to
\* DEBUG, a transport is written exactly when DEBUG >= its MinLevel, whatever
\* level the call was made at; the stack trace is captured exactly when the
\* policy holds the level passed to the call, and no hook's change of the
\* level adds or removes it afterwards.
C37_FilterAfterHooks ==
  \A p \in Procs :
    \A k \in DOMAIN FanRecs(p) :
      LET lvl == IF \E i \in DOMAIN snap[p].beforeHooks :
                      snap[p].beforeHooks[i] = 0
                 THEN DEBUG ELSE entry[p].Level
      IN (FanRecs(p)[k].op = "write") <=> (lvl >= MinLevel(FanRecs(p)[k].t))

C37_CaptureAtCallLevel ==
  \A p \in Procs :
    LET has(e) == \E i \in DOMAIN e.Fields : e.Fields[i] = "stacktrace"
    IN /\ pc'[p] = "before" /\ pc[p] # "before" =>
            (has(entry'[p]) <=> PolicyOn(stacktrace, entry'[p].Level))
       /\ pc[p] \notin {"idle", "returned"} /\ pc'[p] # "before" =>
            (has(entry'[p]) <=> has(entry[p]))

C37_LevelAfterHooks ==
  []C37_FilterAfterHooks /\ [][C37_CaptureAtCallLevel]_vars

\* a call made at ERROR under a policy holding ERROR carries a stack
\* trace, and a before-hook having set its level to DEBUG, it was written to
\* A (DEBUG) and not to F (INFO)
C37_Witness ==
  \E p \in Procs :
    /\ pc[p] = "returned"
    /\ entry[p].Level = DEBUG
    /\ \E i \in DOMAIN entry[p].Fields : entry[p].Fields[i] = "stacktrace"
    /\ \E k \in DOMAIN FanRecs(p) :
         FanRecs(p)[k].op = "write" /\ FanRecs(p)[k].t = "A"
    /\ \E k \in DOMAIN FanRecs(p) :
         FanRecs(p)[k].op = "skip" /\ FanRecs(p)[k].t = "F"
\* C39: when Close has returned, every closeable transport reachable from
\* the list it copied has been closed: an element that is closeable, and the
\* transport wrapped by an element that is a TransportWithFilter.
C39_CloseThroughFilter ==
  closePc = "returned" =>
    \A i \in DOMAIN closeList :
      LET t == closeList[i]
          c == IF TransportKind(t) = "filter" THEN WrappedOf(t) ELSE t
      IN c \in Closers => \E j \in DOMAIN closed : closed[j].t = c
\* C38: no step of Logger.Close changes the transport list, the hook lists
\* or the stacktrace policy; a log call made before, while or after Close
\* runs iterates every index of its snapshot and invokes the write of every
\* transport whose MinLevel the event's level reaches, closed or not; and a
\* write to a transport that Close has closed fails and is handed to every
\* error-hook of the snapshot, in order.
C38_LoggingGoesOn ==
  \A p \in Procs :
    /\ FanOutDone(p) => Len(FanRecs(p)) = snap[p].transports.len
    /\ \A k \in DOMAIN FanRecs(p) :
         (FanRecs(p)[k].op = "write")
           <=> (entry[p].Level >= MinLevel(FanRecs(p)[k].t))

C38_CloseStep ==
  /\ closePc' # closePc \/ closeIdx' # closeIdx =>
       UNCHANGED <<arrays, transports, beforeHooks, afterHooks, errorHooks,
                   stacktrace>>
  /\ \A p \in Procs :
       LET n == Len(trace[p])
           hs == snap[p].errorHooks
       IN /\ pc[p] = "fanout"
          /\ Len(trace'[p]) > n
          /\ trace'[p][n + 1].op = "write"
          /\ trace'[p][n + 1].t \in ClosedFiles
          => /\ trace'[p][n + 1].err # "nil"
             /\ Len(trace'[p]) = n + 1 + Len(hs)
             /\ \A j \in DOMAIN hs :
                  /\ trace'[p][n + 1 + j].op = "errhook"
                  /\ trace'[p][n + 1 + j].who = hs[j]
                  /\ trace'[p][n + 1 + j].t = trace'[p][n + 1].t
                  /\ trace'[p][n + 1 + j].err = trace'[p][n + 1].err

C38_CloseKeepsLogging == []C38_LoggingGoesOn /\ [][C38_CloseStep]_vars

\* a call that took its snapshot after Close had returned wrote to the
\* closed file transport; the write failed and the error-hook was told
C38_Witness ==
  \E p \in Procs :
    /\ pc[p] = "returned"
    /\ closePc = "returned"
    /\ \E i \in DOMAIN trace[p] :
         /\ trace[p][i].op = "write"
         /\ trace[p][i].t = "file"
         /\ trace[p][i].err # "nil"
         /\ i < Len(trace[p])
         /\ trace[p][i + 1].op = "errhook"
         /\ trace[p][i + 1].t = "file"
    /\ \E i \in DOMAIN closeList : closeList[i] = "file"
    /\ snapList[p] = closeList
====
